---------------------------- MODULE Spec2Model ----------------------------
(***************************************************************************)
(* Model of the materials-archive site: the per-page CSV feed loader, the  *)
(* tolerant row normalizers and the filter/search view.                    *)
(*                                                                         *)
(* JavaScript strings are TLA+ strings (TLC evaluates Len, \o, SubSeq on   *)
(* them); arrays are sequences.  `undefined` and `null` are the two        *)
(* reserved strings below, which no feed cell or query ever equals.        *)
(***************************************************************************)
EXTENDS FiniteSets, Integers, Sequences, TLC

VARIABLES
    page,       \* which page component is mounted
    sheetUrl,   \* the configured feed URL ("" when the variable is unset)
    rows,       \* the record set (projects / pubs / items / rows state)
    loading,    \* the loading flag
    errMsg,     \* the error message, or null
    usedUrl,    \* the URL the page shows as the one it fetched
    diag,       \* the diagnostics object, or nullDiag
    query,      \* the search box
    tab,        \* the category tab (archive / resources)
    mounted,    \* whether the page component is mounted
    loads,      \* the load() calls made so far, in order of their trigger
    latest,     \* what the most recently triggered load came to (history)
    lastCompleted, \* index of the load that completed last, 0 if none (history)
    fnName,     \* normalizer harness: which normalizer is applied
    fnIn,       \* normalizer harness: the cell text it is applied to
    fnOut,      \* normalizer harness: its result
    fnPc,       \* normalizer harness: "ready" before the call, "done" after
    openAbsId   \* publications page: id of the card whose abstract is open, or null

vars == <<page, sheetUrl, rows, loading, errMsg, usedUrl, diag, query, tab, mounted, loads,
          latest, lastCompleted, fnName, fnIn, fnOut, fnPc, openAbsId>>

pageVars == <<page, sheetUrl, rows, loading, errMsg, usedUrl, diag, query, tab, mounted, loads,
              latest, lastCompleted, openAbsId>>
fnVars == <<fnName, fnIn, fnOut, fnPc>>

undefined == "<undefined>"
null == "<null>"
\* diag and diag.sampleRow hold objects; TLC compares a record only with a
\* record, so the null of setDiag(null) and the undefined of an absent first
\* row are the records with that one field.
nullDiag == [null |-> TRUE]
undefinedRow == [undefined |-> TRUE]

(***************************************************************************)
(* Bounds of the model.                                                    *)
(***************************************************************************)
MaxLen == 4         \* most pieces concatenated into one input text
MaxRows == 2        \* most rows in one feed
MaxLoads == 2       \* most load() calls in one behaviour

(***************************************************************************)
(* String primitives of the JavaScript runtime.                            *)
(***************************************************************************)
Char(s, i) == SubSeq(s, i, i)

Min(S) == CHOOSE x \in S : \A y \in S : x <= y
Max(S) == CHOOSE x \in S : \A y \in S : x >= y

WhiteSpace == {" ", "\t", "\n", "\r"}

UpperChars == "ABCDEFGHIJKLMNOPQRSTUVWXYZ"
LowerChars == "abcdefghijklmnopqrstuvwxyz"

toLowerChar(c) ==
    IF \E i \in 1..Len(UpperChars) : Char(UpperChars, i) = c
    THEN Char(LowerChars, CHOOSE i \in 1..Len(UpperChars) : Char(UpperChars, i) = c)
    ELSE c

RECURSIVE toLowerCase(_)
toLowerCase(s) ==
    IF s = "" THEN ""
    ELSE toLowerChar(Char(s, 1)) \o toLowerCase(SubSeq(s, 2, Len(s)))

RECURSIVE trimStart(_)
trimStart(s) ==
    IF s # "" /\ Char(s, 1) \in WhiteSpace
    THEN trimStart(SubSeq(s, 2, Len(s)))
    ELSE s

RECURSIVE trimEnd(_)
trimEnd(s) ==
    IF s # "" /\ Char(s, Len(s)) \in WhiteSpace
    THEN trimEnd(SubSeq(s, 1, Len(s) - 1))
    ELSE s

trim(s) == trimEnd(trimStart(s))

startsWith(s, p) == Len(s) >= Len(p) /\ SubSeq(s, 1, Len(p)) = p

\* String.prototype.indexOf: the first position of sep in s, 0 when absent.
indexOf(s, sep) ==
    LET hits == {i \in 1..(Len(s) - Len(sep) + 1) : SubSeq(s, i, i + Len(sep) - 1) = sep}
    IN  IF hits = {} THEN 0 ELSE CHOOSE i \in hits : \A j \in hits : i <= j

includes(s, q) == q = "" \/ indexOf(s, q) > 0

\* String.prototype.split with a non-empty string separator.
RECURSIVE split(_, _)
split(s, sep) ==
    LET i == indexOf(s, sep)
    IN  IF i = 0 THEN <<s>>
        ELSE <<SubSeq(s, 1, i - 1)>> \o split(SubSeq(s, i + Len(sep), Len(s)), sep)

\* String.prototype.split(/\s+/g): cut at every maximal run of white space.
RECURSIVE splitWhitespace(_)
splitWhitespace(s) ==
    LET ws == {i \in 1..Len(s) : Char(s, i) \in WhiteSpace}
    IN  IF ws = {} THEN <<s>>
        ELSE LET i == CHOOSE k \in ws : \A j \in ws : k <= j
                 rest == trimStart(SubSeq(s, i, Len(s)))
             IN  <<SubSeq(s, 1, i - 1)>> \o splitWhitespace(rest)

\* Array.prototype.join.
RECURSIVE join(_, _)
join(a, sep) ==
    IF a = <<>> THEN ""
    ELSE IF Len(a) = 1 THEN a[1]
    ELSE a[1] \o sep \o join(Tail(a), sep)

\* Array.prototype.map and filter over sequences.
mapTrim(a) == [i \in 1..Len(a) |-> trim(a[i])]

RECURSIVE filterBoolean(_)
filterBoolean(a) ==
    IF a = <<>> THEN <<>>
    ELSE IF a[1] # "" THEN <<a[1]>> \o filterBoolean(Tail(a))
    ELSE filterBoolean(Tail(a))

\* (s || ""): undefined and the empty string both read as "".
orEmpty(s) == IF s = undefined THEN "" ELSE s

(***************************************************************************)
(* Field normalizers (components/archive.tsx, app/people/page.tsx).        *)
(***************************************************************************)
normalizeList(s, sep) == filterBoolean(mapTrim(split(orEmpty(s), sep)))

\* normalizeTags without its white-space fallback.
normalizeTagsNoFallback(s) ==
    LET raw == trim(orEmpty(s))
        c == normalizeList(raw, ",")
        sc == normalizeList(raw, ";")
        p == normalizeList(raw, "|")
    IN  IF raw = "" THEN <<>>
        ELSE IF Len(c) > 1 THEN c
        ELSE IF Len(sc) > 1 THEN sc
        ELSE IF Len(p) > 1 THEN p
        ELSE <<raw>>

normalizeTags(s) ==
    LET raw == trim(orEmpty(s))
        c == normalizeList(raw, ",")
        sc == normalizeList(raw, ";")
        p == normalizeList(raw, "|")
    IN  IF raw = "" THEN <<>>
        ELSE IF Len(c) > 1 THEN c
        ELSE IF Len(sc) > 1 THEN sc
        ELSE IF Len(p) > 1 THEN p
        ELSE filterBoolean(mapTrim(splitWhitespace(raw)))

\* people/page.tsx has its own copy under the name normalizeList.
normalizeListPeople(s) ==
    LET raw == trim(orEmpty(s))
        comma == filterBoolean(mapTrim(split(raw, ",")))
        semi == filterBoolean(mapTrim(split(raw, ";")))
        pipe == filterBoolean(mapTrim(split(raw, "|")))
    IN  IF raw = "" THEN <<>>
        ELSE IF Len(comma) > 1 THEN comma
        ELSE IF Len(semi) > 1 THEN semi
        ELSE IF Len(pipe) > 1 THEN pipe
        ELSE filterBoolean(mapTrim(splitWhitespace(raw)))

CATEGORY_KEYS == <<"article", "lecture", "python">>

Range(a) == {a[i] : i \in 1..Len(a)}

\* categoryAlias without the "py" synonym.
categoryAliasNoPy(c) ==
    LET x == trim(toLowerCase(c))
    IN  IF x = "tool" THEN "python"
        ELSE IF x = "python code" THEN "python"
        ELSE x

\* The alias step of normalizeCategories: one candidate token to its key.
categoryAlias(c) ==
    LET x == trim(toLowerCase(c))
    IN  IF x = "tool" THEN "python"
        ELSE IF x = "python code" THEN "python"
        ELSE IF x = "py" THEN "python"
        ELSE x

\* categoryCandidates falling back to white-space splitting like normalizeTags.
categoryCandidatesWhitespace(raw) ==
    IF Len(normalizeList(raw, ",")) > 1 THEN normalizeList(raw, ",")
    ELSE IF Len(normalizeList(raw, ";")) > 1 THEN normalizeList(raw, ";")
    ELSE IF Len(normalizeList(raw, "|")) > 1 THEN normalizeList(raw, "|")
    ELSE filterBoolean(mapTrim(splitWhitespace(raw)))

\* The candidate tokens of normalizeCategories, before alias and filter.
categoryCandidates(raw) ==
    IF Len(normalizeList(raw, ",")) > 1 THEN normalizeList(raw, ",")
    ELSE IF Len(normalizeList(raw, ";")) > 1 THEN normalizeList(raw, ";")
    ELSE IF Len(normalizeList(raw, "|")) > 1 THEN normalizeList(raw, "|")
    ELSE <<raw>>

\* filterCategory letting every token through.
filterCategoryKeepAll(a) == a

RECURSIVE filterCategory(_)
filterCategory(a) ==
    IF a = <<>> THEN <<>>
    ELSE IF a[1] \in Range(CATEGORY_KEYS) THEN <<a[1]>> \o filterCategory(Tail(a))
    ELSE filterCategory(Tail(a))

normalizeCategories(s) ==
    LET raw == trim(orEmpty(s))
        candidates == categoryCandidates(raw)
    IN  IF raw = "" THEN <<>>
        ELSE filterCategory([i \in 1..Len(candidates) |-> categoryAlias(candidates[i])])

\* fileItem without the URL-only fallback.
fileItemNoBareUrl(part) ==
    LET pieces == split(part, "::")
        nameRaw == pieces[1]
        urlRaw == IF Len(pieces) > 1 THEN pieces[2] ELSE undefined
        name == trim(orEmpty(nameRaw))
        url == trim(orEmpty(urlRaw))
    IN  [name |-> IF name = "" THEN "File" ELSE name, url |-> url]

\* One "|"-separated part of a files cell to its FileItem (url "" when none).
fileItem(part) ==
    LET pieces == split(part, "::")
        nameRaw == pieces[1]
        urlRaw == IF Len(pieces) > 1 THEN pieces[2] ELSE undefined
        name == trim(orEmpty(nameRaw))
        url == trim(orEmpty(urlRaw))
    IN  IF url = "" /\ startsWith(name, "http") THEN [name |-> "File", url |-> name]
        ELSE [name |-> IF name = "" THEN "File" ELSE name, url |-> url]

RECURSIVE filterUrl(_)
filterUrl(a) ==
    IF a = <<>> THEN <<>>
    ELSE IF a[1].url # "" THEN <<a[1]>> \o filterUrl(Tail(a))
    ELSE filterUrl(Tail(a))

normalizeFiles(s) ==
    LET parts == filterBoolean(mapTrim(split(orEmpty(s), "|")))
    IN  filterUrl([i \in 1..Len(parts) |-> fileItem(parts[i])])

(***************************************************************************)
(* Record normalizers and the load filter of the resources feed.           *)
(***************************************************************************)
\* toResource of components/archive.tsx: createdAt is only trimmed.
toResource(r) ==
    [id |-> trim(orEmpty(r.id)),
     title |-> trim(orEmpty(r.title)),
     description |-> trim(orEmpty(r.description)),
     categories |-> normalizeCategories(orEmpty(r.categories)),
     tags |-> normalizeTags(orEmpty(r.tags)),
     fileItems |-> normalizeFiles(orEmpty(r.files)),
     createdAt |-> IF trim(orEmpty(r.createdAt)) = "" THEN undefined
                   ELSE trim(orEmpty(r.createdAt))]

\* The load filter looking at the id alone.
hasIdOnly(r) == r.id # ""

\* The predicate of .filter((r) => r.id && r.title).
hasIdAndTitle(r) == r.id # "" /\ r.title # ""

RECURSIVE filterIdTitle(_)
filterIdTitle(a) ==
    IF a = <<>> THEN <<>>
    ELSE IF hasIdAndTitle(a[1]) THEN <<a[1]>> \o filterIdTitle(Tail(a))
    ELSE filterIdTitle(Tail(a))

(***************************************************************************)
(* Dates (resources page).  The engine's Date parser is outside the        *)
(* repository: it is modelled on the date-only forms of the ECMAScript     *)
(* Date Time String Format (YYYY-MM-DD and the expanded years              *)
(* +YYYYYY-MM-DD, -YYYYYY-MM-DD) and on a table of the free-form texts the  *)
(* feeds of this model use.  The local getters are modelled in a time zone  *)
(* at or east of UTC, where a date-only form keeps its calendar day.        *)
(***************************************************************************)
Digits == "0123456789"

isDigit(c) == \E i \in 1..Len(Digits) : Char(Digits, i) = c

digitValue(c) == (CHOOSE i \in 1..Len(Digits) : Char(Digits, i) = c) - 1

RECURSIVE toInt(_)
toInt(s) ==
    IF s = "" THEN 0
    ELSE 10 * toInt(SubSeq(s, 1, Len(s) - 1)) + digitValue(Char(s, Len(s)))

RECURSIVE repeat(_, _)
repeat(c, k) == IF k <= 0 THEN "" ELSE c \o repeat(c, k - 1)

\* String(n).padStart(width, "0")
padStart(n, width) == repeat("0", width - Len(ToString(n))) \o ToString(n)

\* /^\d{4}-\d{2}-\d{2}$/.test(raw)
isCanonicalDate(raw) ==
    /\ Len(raw) = 10
    /\ Char(raw, 5) = "-"
    /\ Char(raw, 8) = "-"
    /\ \A i \in {1, 2, 3, 4, 6, 7, 9, 10} : isDigit(Char(raw, i))

FreeFormDates ==
    [t \in {"2023/12/31", "Jan 5, 2024"} |->
        IF t = "2023/12/31" THEN [y |-> 2023, m |-> 12, d |-> 31]
        ELSE [y |-> 2024, m |-> 1, d |-> 5]]

\* /^[+-]\d{6}-\d{2}-\d{2}$/ other than year -000000: the expanded-year
\* date-only form.
isExpandedDate(raw) ==
    /\ Len(raw) = 13
    /\ Char(raw, 1) \in {"+", "-"}
    /\ Char(raw, 8) = "-"
    /\ Char(raw, 11) = "-"
    /\ \A i \in {2, 3, 4, 5, 6, 7, 9, 10, 12, 13} : isDigit(Char(raw, i))
    /\ SubSeq(raw, 1, 7) # "-000000"

\* The days a time value can denote: 100,000,000 days either side of
\* 1970-01-01.
inTimeRange(y, m, d) ==
    /\ \/ y > -271821
       \/ y = -271821 /\ (m > 4 \/ (m = 4 /\ d >= 20))
    /\ \/ y < 275760
       \/ y = 275760 /\ (m < 9 \/ (m = 9 /\ d <= 13))

InvalidDate == [ok |-> FALSE, y |-> 0, m |-> 0, d |-> 0]

daysInMonth(y, m) ==
    IF m = 2 THEN (IF y % 4 = 0 /\ (y % 100 # 0 \/ y % 400 = 0) THEN 29 ELSE 28)
    ELSE IF m \in {4, 6, 9, 11} THEN 30
    ELSE 31

\* new Date(raw): the calendar date it denotes, or Invalid Date.
newDate(raw) ==
    IF isCanonicalDate(raw)
    THEN LET y == toInt(SubSeq(raw, 1, 4))
             m == toInt(SubSeq(raw, 6, 7))
             d == toInt(SubSeq(raw, 9, 10))
         IN  IF m \in 1..12 /\ d \in 1..daysInMonth(y, m)
             THEN [ok |-> TRUE, y |-> y, m |-> m, d |-> d]
             ELSE InvalidDate
    ELSE IF isExpandedDate(raw)
    THEN LET y == (IF Char(raw, 1) = "-" THEN -1 ELSE 1) * toInt(SubSeq(raw, 2, 7))
             m == toInt(SubSeq(raw, 9, 10))
             d == toInt(SubSeq(raw, 12, 13))
         IN  IF m \in 1..12 /\ d \in 1..daysInMonth(y, m) /\ inTimeRange(y, m, d)
             THEN [ok |-> TRUE, y |-> y, m |-> m, d |-> d]
             ELSE InvalidDate
    ELSE IF raw \in DOMAIN FreeFormDates
    THEN [ok |-> TRUE, y |-> FreeFormDates[raw].y, m |-> FreeFormDates[raw].m,
          d |-> FreeFormDates[raw].d]
    ELSE InvalidDate

NaN == -1000000000

\* Date.parse(s): a time stamp that grows with the date, or NaN.
dateParse(s) ==
    LET d == newDate(s)
    IN  IF d.ok THEN (d.y * 12 + (d.m - 1)) * 31 + d.d ELSE NaN

normalizeCreatedAt(s) ==
    LET raw == trim(orEmpty(s))
        d == newDate(raw)
    IN  IF raw = "" THEN undefined
        ELSE IF isCanonicalDate(raw) THEN raw
        ELSE IF ~d.ok THEN raw
        ELSE padStart(d.y, 4) \o "-" \o padStart(d.m, 2) \o "-" \o padStart(d.d, 2)

\* toResource of the resources page: createdAt goes through normalizeCreatedAt.
toResourcePage(r) ==
    [id |-> trim(orEmpty(r.id)),
     title |-> trim(orEmpty(r.title)),
     description |-> trim(orEmpty(r.description)),
     categories |-> normalizeCategories(orEmpty(r.categories)),
     tags |-> normalizeTags(orEmpty(r.tags)),
     fileItems |-> normalizeFiles(orEmpty(r.files)),
     createdAt |-> normalizeCreatedAt(r.createdAt)]

(***************************************************************************)
(* Header aliases: a parsed row is a function from the (lower-cased)       *)
(* header names present in it to cell texts.  The Korean headers of the    *)
(* source are written ko_id, ko_title, ... here.                           *)
(***************************************************************************)
cell(r, k) == IF k \in DOMAIN r THEN r[k] ELSE undefined

\* a || b || c: the first value that is neither undefined nor empty.
RECURSIVE coalesceNonEmpty(_)
coalesceNonEmpty(vs) ==
    IF vs = <<>> THEN undefined
    ELSE IF vs[1] # undefined /\ vs[1] # "" THEN vs[1]
    ELSE IF Len(vs) = 1 THEN vs[1]
    ELSE coalesceNonEmpty(Tail(vs))

\* a ?? b ?? c: the first value that is not undefined.
RECURSIVE coalesce(_)
coalesce(vs) ==
    IF vs = <<>> THEN undefined
    ELSE IF vs[1] # undefined THEN vs[1]
    ELSE coalesce(Tail(vs))

\* components/archive.tsx
headerMapArchive(r) ==
    [id |-> coalesce(<<cell(r, "id"), cell(r, "ID"), cell(r, "Id"), cell(r, "ko_id")>>),
     title |-> coalesce(<<cell(r, "title"), cell(r, "Title"), cell(r, "ko_title")>>),
     description |-> coalesce(<<cell(r, "description"), cell(r, "desc"),
                                cell(r, "ko_description")>>),
     categories |-> coalesce(<<cell(r, "categories"), cell(r, "category"),
                               cell(r, "ko_category")>>),
     tags |-> coalesce(<<cell(r, "tags"), cell(r, "tag"), cell(r, "ko_tag")>>),
     files |-> coalesce(<<cell(r, "files"), cell(r, "file"), cell(r, "ko_material"),
                          cell(r, "ko_link")>>),
     createdAt |-> coalesce(<<cell(r, "createdat"), cell(r, "createdat"),
                              cell(r, "created_at"), cell(r, "date"), cell(r, "ko_date")>>)]

\* resources page
headerMapResources(r) ==
    [id |-> coalesce(<<cell(r, "id"), cell(r, "ID"), cell(r, "Id")>>),
     title |-> coalesce(<<cell(r, "title"), cell(r, "Title")>>),
     description |-> coalesce(<<cell(r, "description"), cell(r, "desc"),
                                cell(r, "ko_description")>>),
     categories |-> coalesce(<<cell(r, "categories"), cell(r, "category"),
                               cell(r, "ko_category")>>),
     tags |-> coalesce(<<cell(r, "tags"), cell(r, "tag"), cell(r, "ko_tag")>>),
     files |-> coalesce(<<cell(r, "files"), cell(r, "file"), cell(r, "ko_material"),
                          cell(r, "ko_link")>>),
     createdAt |-> coalesce(<<cell(r, "createdat"), cell(r, "created_at"),
                              cell(r, "createdat"), cell(r, "date"), cell(r, "ko_date")>>)]

(***************************************************************************)
(* The filter / search view (archive component and resources page).        *)
(***************************************************************************)
TabKeys == {"all", "python", "lecture", "article"}

\* TABS[k].match
tabMatch(k) == IF k = "all" THEN Range(CATEGORY_KEYS) ELSE {k}

toUpperChar(c) ==
    IF \E i \in 1..Len(LowerChars) : Char(LowerChars, i) = c
    THEN Char(UpperChars, CHOOSE i \in 1..Len(LowerChars) : Char(LowerChars, i) = c)
    ELSE c

categoryLabel(cat) ==
    IF cat = "python" THEN "Python code"
    ELSE toUpperChar(Char(cat, 1)) \o SubSeq(cat, 2, Len(cat))

\* No sort: the array as it was.
unsorted(a, c) == a

\* Array.prototype.sort: the stable order under a consistent comparator,
\* given as the table c[j, i] of the comparator's results on a[j], a[i].
sortBy(a, c) ==
    LET n == Len(a)
        before(j, i) == c[j, i] < 0 \/ (c[j, i] = 0 /\ j < i)
        rank(i) == Cardinality({j \in 1..n : before(j, i)}) + 1
    IN  [k \in 1..n |-> a[CHOOSE i \in 1..n : rank(i) = k]]

\* The comparator of sortedRows: newest createdAt first, undated rows last.
compareCreatedAt(a, b) ==
    LET ax == IF a.createdAt # undefined THEN dateParse(a.createdAt) ELSE NaN
        bx == IF b.createdAt # undefined THEN dateParse(b.createdAt) ELSE NaN
    IN  IF ax = NaN /\ bx = NaN THEN 0
        ELSE IF ax = NaN THEN 1
        ELSE IF bx = NaN THEN -1
        ELSE bx - ax

sortedRows(rs) == sortBy(rs, [j, i \in 1..Len(rs) |-> compareCreatedAt(rs[j], rs[i])])

\* The first .filter of filtered: the category tab.
passesTab(r, t) ==
    \/ t = "all"
    \/ \E i \in 1..Len(r.categories) : r.categories[i] \in tabMatch(t)

\* The haystack of the archive component's text filter.
hayArchive(r) ==
    toLowerCase(join(<<r.title, r.description, join(r.tags, " "),
                       join(r.categories, " ")>>, " "))

\* The haystack of the resources page's text filter.
hayResources(r) ==
    toLowerCase(join(<<r.title,
                       r.description,
                       join(r.tags, " "),
                       join([i \in 1..Len(r.categories) |-> categoryLabel(r.categories[i])], " "),
                       join([i \in 1..Len(r.fileItems) |-> r.fileItems[i].name], " "),
                       IF r.createdAt = undefined THEN "" ELSE r.createdAt>>, " "))

\* passesQuery comparing the query as typed, without lower-casing it.
passesQueryCaseSensitive(hay, qs) ==
    LET q == trim(qs)
    IN  q = "" \/ includes(hay, q)

\* The second .filter of filtered: the search box.
passesQuery(hay, qs) ==
    LET q == toLowerCase(trim(qs))
    IN  q = "" \/ includes(hay, q)

\* The positions of rs that filtered keeps, in order.
RECURSIVE keepPositions(_, _, _, _)
keepPositions(rs, i, t, qs) ==
    IF i > Len(rs) THEN <<>>
    ELSE IF passesTab(rs[i], t) /\ passesQuery(hayArchive(rs[i]), qs)
    THEN <<i>> \o keepPositions(rs, i + 1, t, qs)
    ELSE keepPositions(rs, i + 1, t, qs)

filteredArchive(rs, t, qs) ==
    LET keep == keepPositions(rs, 1, t, qs)
    IN  [k \in 1..Len(keep) |-> rs[keep[k]]]

RECURSIVE keepPositionsResources(_, _, _, _)
keepPositionsResources(rs, i, t, qs) ==
    IF i > Len(rs) THEN <<>>
    ELSE IF passesTab(rs[i], t) /\ passesQuery(hayResources(rs[i]), qs)
    THEN <<i>> \o keepPositionsResources(rs, i + 1, t, qs)
    ELSE keepPositionsResources(rs, i + 1, t, qs)

\* A filter of the rows as loaded, not of sortedRows.
filteredResourcesUnsorted(rs, t, qs) ==
    LET sorted == rs
        keep == keepPositionsResources(sorted, 1, t, qs)
    IN  [k \in 1..Len(keep) |-> sorted[keep[k]]]

filteredResources(rs, t, qs) ==
    LET sorted == sortedRows(rs)
        keep == keepPositionsResources(sorted, 1, t, qs)
    IN  [k \in 1..Len(keep) |-> sorted[keep[k]]]

\* The haystack of the projects page's text filter.
hayProjects(r) ==
    toLowerCase(join(<<r.title, orEmpty(r.status), orEmpty(r.description), join(r.tags, " "),
                       orEmpty(r.startDate), orEmpty(r.endDate)>>, " "))

RECURSIVE keepPositionsProjects(_, _, _)
keepPositionsProjects(rs, i, qs) ==
    IF i > Len(rs) THEN <<>>
    ELSE IF passesQuery(hayProjects(rs[i]), qs)
    THEN <<i>> \o keepPositionsProjects(rs, i + 1, qs)
    ELSE keepPositionsProjects(rs, i + 1, qs)

\* filtered of the projects page: the search box only.
filteredProjects(rs, qs) ==
    LET keep == keepPositionsProjects(rs, 1, qs)
    IN  IF toLowerCase(trim(qs)) = "" THEN rs ELSE [k \in 1..Len(keep) |-> rs[keep[k]]]

\* The haystack of the publications page's text filter.
hayPublications(r) ==
    toLowerCase(join(<<r.title, orEmpty(r.authors), orEmpty(r.journal), orEmpty(r.venue),
                       orEmpty(r.type), join(r.tags, " "),
                       IF r.year = 0 THEN "" ELSE ToString(r.year), orEmpty(r.doi)>>, " "))

RECURSIVE keepPositionsPublications(_, _, _)
keepPositionsPublications(rs, i, qs) ==
    IF i > Len(rs) THEN <<>>
    ELSE IF passesQuery(hayPublications(rs[i]), qs)
    THEN <<i>> \o keepPositionsPublications(rs, i + 1, qs)
    ELSE keepPositionsPublications(rs, i + 1, qs)

\* filtered of the publications page: the search box only.
filteredPublications(rs, qs) ==
    LET keep == keepPositionsPublications(rs, 1, qs)
    IN  IF toLowerCase(trim(qs)) = "" THEN rs ELSE [k \in 1..Len(keep) |-> rs[keep[k]]]

\* filtered of page p for record set rs, tab t and query qs.
filteredOf(p, rs, t, qs) ==
    IF p = "resources" THEN filteredResources(rs, t, qs)
    ELSE IF p = "projects" THEN filteredProjects(rs, qs)
    ELSE IF p = "publications" THEN filteredPublications(rs, qs)
    ELSE filteredArchive(rs, t, qs)

\* What the mounted page renders.
filtered == filteredOf(page, rows, tab, query)

(***************************************************************************)
(* The projects page: its row normalizer and base ordering.                *)
(***************************************************************************)
\* A test that accepts every scheme.
isAnyUrl(s) ==
    LET v == trim(orEmpty(s))
    IN  includes(v, "://")

isHttpUrl(s) ==
    LET v == trim(orEmpty(s))
    IN  startsWith(v, "http://") \/ startsWith(v, "https://")

isLocalPublicPath(s) == startsWith(trim(orEmpty(s)), "/")

\* Number(s) of a trimmed, non-empty cell: decimal integers are read, any
\* other text of the model's feeds is NaN.  ok = Number.isFinite.
jsNumber(s) ==
    LET body == IF startsWith(s, "-") \/ startsWith(s, "+") THEN SubSeq(s, 2, Len(s)) ELSE s
    IN  IF body # "" /\ \A i \in 1..Len(body) : isDigit(Char(body, i))
        THEN [ok |-> TRUE, n |-> IF startsWith(s, "-") THEN 0 - toInt(body) ELSE toInt(body)]
        ELSE [ok |-> FALSE, n |-> 0]

toNumber(v, fallback) ==
    LET s == trim(orEmpty(v))
    IN  IF s = "" THEN fallback
        ELSE IF jsNumber(s).ok THEN jsNumber(s).n
        ELSE fallback

ORDER_FALLBACK == 9999

normalizeDate(s) ==
    LET raw == trim(orEmpty(s))
        d == newDate(raw)
    IN  IF raw = "" THEN undefined
        ELSE IF isCanonicalDate(raw) THEN raw
        ELSE IF ~d.ok THEN raw
        ELSE padStart(d.y, 4) \o "-" \o padStart(d.m, 2) \o "-" \o padStart(d.d, 2)

\* (x || "").trim() || undefined
trimOrUndefined(s) == IF trim(orEmpty(s)) = "" THEN undefined ELSE trim(orEmpty(s))

toProject(r) ==
    LET imgRaw == trim(orEmpty(r.imageurl))
    IN  [id |-> trim(orEmpty(r.id)),
         title |-> trim(orEmpty(r.title)),
         status |-> trimOrUndefined(r.status),
         description |-> trimOrUndefined(r.description),
         tags |-> normalizeTags(r.tags),
         startDate |-> normalizeDate(r.startdate),
         endDate |-> normalizeDate(r.enddate),
         url |-> IF isHttpUrl(r.url) THEN trim(orEmpty(r.url)) ELSE undefined,
         repo |-> IF isHttpUrl(r.repo) THEN trim(orEmpty(r.repo)) ELSE undefined,
         order |-> toNumber(r.order, ORDER_FALLBACK),
         imageUrl |-> IF imgRaw # "" /\ (isHttpUrl(imgRaw) \/ isLocalPublicPath(imgRaw))
                      THEN imgRaw ELSE undefined]

headerMapProjects(r) ==
    [id |-> coalesce(<<cell(r, "id"), cell(r, "ID"), cell(r, "Id")>>),
     title |-> coalesce(<<cell(r, "title"), cell(r, "Title")>>),
     status |-> cell(r, "status"),
     description |-> coalesce(<<cell(r, "description"), cell(r, "desc"), cell(r, "summary")>>),
     tags |-> coalesce(<<cell(r, "tags"), cell(r, "tag")>>),
     startdate |-> coalesce(<<cell(r, "startdate"), cell(r, "start_date"), cell(r, "start")>>),
     enddate |-> coalesce(<<cell(r, "enddate"), cell(r, "end_date"), cell(r, "end")>>),
     url |-> coalesce(<<cell(r, "url"), cell(r, "link"), cell(r, "website")>>),
     repo |-> coalesce(<<cell(r, "repo"), cell(r, "github"), cell(r, "repository")>>),
     order |-> cell(r, "order"),
     imageurl |-> coalesce(<<cell(r, "imageurl"), cell(r, "image_url"), cell(r, "image")>>)]

\* String.prototype.localeCompare on the titles of the model's feeds: the
\* collation puts white space before digits before letters, ignores case at
\* the first level and breaks ties lower case first.
CollationOrder == " 0123456789abcdefghijklmnopqrstuvwxyz"

collationRank(c) ==
    LET k == toLowerChar(c)
        hits == {i \in 1..Len(CollationOrder) : Char(CollationOrder, i) = k}
    IN  IF hits = {} THEN 0 ELSE Min(hits)

RECURSIVE comparePrimary(_, _)
comparePrimary(a, b) ==
    IF a = "" /\ b = "" THEN 0
    ELSE IF a = "" THEN -1
    ELSE IF b = "" THEN 1
    ELSE IF collationRank(Char(a, 1)) < collationRank(Char(b, 1)) THEN -1
    ELSE IF collationRank(Char(a, 1)) > collationRank(Char(b, 1)) THEN 1
    ELSE comparePrimary(SubSeq(a, 2, Len(a)), SubSeq(b, 2, Len(b)))

RECURSIVE compareCase(_, _)
compareCase(a, b) ==
    IF a = "" \/ b = "" THEN 0
    ELSE IF Char(a, 1) = Char(b, 1) THEN compareCase(SubSeq(a, 2, Len(a)), SubSeq(b, 2, Len(b)))
    ELSE IF Char(a, 1) = toLowerChar(Char(a, 1)) THEN -1
    ELSE 1

localeCompare(a, b) ==
    IF comparePrimary(a, b) # 0 THEN comparePrimary(a, b) ELSE compareCase(a, b)

\* (a, b) => a.order - b.order || a.title.localeCompare(b.title)
compareProjects(a, b) ==
    IF a.order - b.order # 0 THEN a.order - b.order
    ELSE localeCompare(a.title, b.title)

(***************************************************************************)
(* The publications page: its row normalizer and base ordering.            *)
(***************************************************************************)
\* The year undefined, written as a number outside 1900..2100.
undefinedYear == 0

\* \w of a regular expression.
isWordChar(c) ==
    \/ isDigit(c)
    \/ c = "_"
    \/ \E i \in 1..Len(LowerChars) : Char(LowerChars, i) = c \/ Char(UpperChars, i) = c

\* The start positions of the matches of /\b(\d{4})\b/ in s.
yearMatches(s) ==
    {i \in 1..(Len(s) - 3) :
        /\ \A k \in 0..3 : isDigit(Char(s, i + k))
        /\ (i = 1 \/ ~isWordChar(Char(s, i - 1)))
        /\ (i + 4 > Len(s) \/ ~isWordChar(Char(s, i + 4)))}

toYear(v) ==
    LET s == trim(orEmpty(v))
        m == Min(yearMatches(s))
        n == toInt(SubSeq(s, m, m + 3))
    IN  IF s = "" THEN undefinedYear
        ELSE IF yearMatches(s) = {} THEN undefinedYear
        ELSE IF n < 1900 \/ n > 2100 THEN undefinedYear
        ELSE n

\* doi.replace(/^https?:\/\/doi\.org\//, "")
stripDoiOrg(doi) ==
    IF startsWith(doi, "https://doi.org/") THEN SubSeq(doi, 17, Len(doi))
    ELSE IF startsWith(doi, "http://doi.org/") THEN SubSeq(doi, 16, Len(doi))
    ELSE doi

toPublication(r) ==
    LET url == IF isHttpUrl(r.url) THEN trim(orEmpty(r.url)) ELSE undefined
        doi == trimOrUndefined(r.doi)
        doiUrl == IF url = undefined /\ doi # undefined
                  THEN "https://doi.org/" \o stripDoiOrg(doi) ELSE undefined
    IN  [id |-> trim(orEmpty(r.id)),
         title |-> trim(orEmpty(r.title)),
         authors |-> trimOrUndefined(r.authors),
         year |-> toYear(r.year),
         journal |-> trimOrUndefined(r.journal),
         venue |-> trimOrUndefined(r.venue),
         type |-> trimOrUndefined(r.type),
         tags |-> normalizeTags(r.tags),
         url |-> IF url # undefined THEN url ELSE doiUrl,
         pdf |-> IF isHttpUrl(r.pdf) THEN trim(orEmpty(r.pdf)) ELSE undefined,
         doi |-> doi,
         abstract |-> trimOrUndefined(r.abstract),
         order |-> toNumber(r.order, ORDER_FALLBACK)]

headerMapPublications(r) ==
    [id |-> coalesce(<<cell(r, "id"), cell(r, "ID"), cell(r, "Id")>>),
     title |-> coalesce(<<cell(r, "title"), cell(r, "Title")>>),
     authors |-> coalesce(<<cell(r, "authors"), cell(r, "author"), cell(r, "Authors")>>),
     year |-> coalesce(<<cell(r, "year"), cell(r, "Year"), cell(r, "date"), cell(r, "ko_year")>>),
     journal |-> coalesce(<<cell(r, "journal"), cell(r, "Journal"), cell(r, "ko_journal")>>),
     venue |-> coalesce(<<cell(r, "venue"), cell(r, "conference"), cell(r, "Venue")>>),
     type |-> coalesce(<<cell(r, "type"), cell(r, "category")>>),
     tags |-> coalesce(<<cell(r, "tags"), cell(r, "tag")>>),
     url |-> coalesce(<<cell(r, "url"), cell(r, "link"), cell(r, "website")>>),
     pdf |-> coalesce(<<cell(r, "pdf"), cell(r, "fulltext"), cell(r, "file")>>),
     doi |-> cell(r, "doi"),
     abstract |-> coalesce(<<cell(r, "abstract"), cell(r, "summary"), cell(r, "Abstract"),
                             cell(r, "ko_abstract")>>),
     order |-> cell(r, "order")]

\* order ascending, then year descending with undefined years last, then title.
comparePublications(a, b) ==
    IF a.order - b.order # 0 THEN a.order - b.order
    ELSE IF b.year # a.year
    THEN (IF a.year = undefinedYear THEN 1
          ELSE IF b.year = undefinedYear THEN -1
          ELSE b.year - a.year)
    ELSE localeCompare(a.title, b.title)

(***************************************************************************)
(* The news page: its row normalizer and base ordering.                    *)
(***************************************************************************)
toNewsItem(r) ==
    [id |-> trim(orEmpty(r.id)),
     title |-> trim(orEmpty(r.title)),
     date |-> normalizeDate(r.date),
     summary |-> trimOrUndefined(r.summary),
     url |-> IF isHttpUrl(r.url) THEN trim(orEmpty(r.url)) ELSE undefined,
     tags |-> normalizeTags(r.tags),
     imageUrl |-> IF isHttpUrl(r.imageurl) THEN trim(orEmpty(r.imageurl)) ELSE undefined]

headerMapNews(r) ==
    [id |-> coalesce(<<cell(r, "id"), cell(r, "ID"), cell(r, "Id")>>),
     title |-> coalesce(<<cell(r, "title"), cell(r, "Title")>>),
     date |-> coalesce(<<cell(r, "date"), cell(r, "createdat"), cell(r, "created_at"),
                         cell(r, "ko_date")>>),
     summary |-> coalesce(<<cell(r, "summary"), cell(r, "description"), cell(r, "desc")>>),
     url |-> coalesce(<<cell(r, "url"), cell(r, "link"), cell(r, "website")>>),
     tags |-> coalesce(<<cell(r, "tags"), cell(r, "tag")>>),
     imageurl |-> coalesce(<<cell(r, "imageurl"), cell(r, "image_url"), cell(r, "image")>>)]

\* Newest date first, undated items last, by title among undated items.
compareNews(a, b) ==
    LET ax == IF a.date # undefined THEN dateParse(a.date) ELSE NaN
        bx == IF b.date # undefined THEN dateParse(b.date) ELSE NaN
    IN  IF ax = NaN /\ bx = NaN THEN localeCompare(a.title, b.title)
        ELSE IF ax = NaN THEN 1
        ELSE IF bx = NaN THEN -1
        ELSE bx - ax

(***************************************************************************)
(* The people page: its row normalizer and base ordering.                  *)
(***************************************************************************)
\* /^\d{4}-\d{4}-\d{4}-\d{3}[\dX]$/i.test(raw)
isOrcidId(raw) ==
    /\ Len(raw) = 19
    /\ \A i \in {5, 10, 15} : Char(raw, i) = "-"
    /\ \A i \in (1..18) \ {5, 10, 15} : isDigit(Char(raw, i))
    /\ (isDigit(Char(raw, 19)) \/ Char(raw, 19) \in {"X", "x"})

normalizeOrcid(s) ==
    LET raw == trim(orEmpty(s))
    IN  IF raw = "" THEN undefined
        ELSE IF startsWith(raw, "http") THEN raw
        ELSE IF isOrcidId(raw) THEN "https://orcid.org/" \o raw
        ELSE raw

toPerson(r) ==
    [id |-> trim(orEmpty(r.id)),
     name |-> trim(orEmpty(r.name)),
     role |-> trimOrUndefined(r.role),
     status |-> trimOrUndefined(r.status),
     interests |-> normalizeListPeople(orEmpty(r.interests)),
     methods |-> normalizeListPeople(orEmpty(r.methods)),
     photoUrl |-> IF isHttpUrl(r.photoUrl) THEN trim(orEmpty(r.photoUrl)) ELSE undefined,
     website |-> IF isHttpUrl(r.website) THEN trim(orEmpty(r.website)) ELSE undefined,
     orcid |-> normalizeOrcid(r.orcid),
     email |-> trimOrUndefined(r.email),
     affiliation |-> trimOrUndefined(r.affiliation),
     order |-> toNumber(r.order, ORDER_FALLBACK)]

headerMapPeople(r) ==
    [id |-> coalesce(<<cell(r, "id"), cell(r, "ID"), cell(r, "Id")>>),
     name |-> coalesce(<<cell(r, "name"), cell(r, "Name")>>),
     role |-> cell(r, "role"),
     status |-> cell(r, "status"),
     interests |-> cell(r, "interests"),
     methods |-> cell(r, "methods"),
     photoUrl |-> coalesce(<<cell(r, "photourl"), cell(r, "photoUrl"), cell(r, "photo_url"),
                             cell(r, "photo")>>),
     website |-> coalesce(<<cell(r, "website"), cell(r, "site")>>),
     orcid |-> cell(r, "orcid"),
     email |-> cell(r, "email"),
     affiliation |-> cell(r, "affiliation"),
     order |-> cell(r, "order")]

\* The predicate of .filter((p) => p.id && p.name).
hasIdAndName(r) == r.id # "" /\ r.name # ""

RECURSIVE filterIdName(_)
filterIdName(a) ==
    IF a = <<>> THEN <<>>
    ELSE IF hasIdAndName(a[1]) THEN <<a[1]>> \o filterIdName(Tail(a))
    ELSE filterIdName(Tail(a))

\* (a, b) => a.order - b.order || a.name.localeCompare(b.name)
comparePeople(a, b) ==
    IF a.order - b.order # 0 THEN a.order - b.order
    ELSE localeCompare(a.name, b.name)

(***************************************************************************)
(* The feed loader: load() of each page and the effect that calls it.      *)
(***************************************************************************)
Pages == {"projects", "publications", "news", "resources", "people", "archive"}

\* Pages whose header has a Reload button (onClick={load}).
ReloadPages == {"projects", "publications", "news", "resources"}

FeedUrl == "https://sheet/pub?output=csv"

\* The feed URL a page can be configured with.  The resources page falls
\* back to FALLBACK_SHEET_CSV_URL, so its URL is never empty.
ConfiguredUrls(p) == IF p = "resources" THEN {FeedUrl} ELSE {"", FeedUrl}

ProjectRows ==
    {[id |-> "p1", title |-> "beta", tags |-> "a, b", url |-> "https://x/p",
      startdate |-> "2024-01-05", order |-> "2"],
     [id |-> " p2 ", title |-> "alpha", tags |-> "", url |-> "ftp://x",
      startdate |-> "soon", imageurl |-> "/projects/a.png"],
     [id |-> "  ", title |-> "no id", order |-> "1"],
     [id |-> "p4", tags |-> "x", order |-> "1"]}

ResourceRows ==
    {[id |-> "r1", title |-> "Intro Python", description |-> "basics",
      categories |-> "python", tags |-> "a, b",
      files |-> "Slides::https://x/a.pdf", createdat |-> "2024-01-05"],
     [id |-> "r2", title |-> " Lecture 1 ", category |-> "lecture; article",
      tag |-> "b", date |-> "2023/12/31"],
     [id |-> "r1", title |-> "Misc", categories |-> "workshop", tags |-> "",
      files |-> "notes.pdf", createdat |-> "soon"],
     [id |-> "", ko_id |-> "r4", title |-> "No id", categories |-> "article"]}

PublicationRows ==
    {[id |-> "b1", title |-> "Alloy phases", authors |-> "Kim, Lee", year |-> "2021",
      journal |-> "Acta", tags |-> "dft; alloys", doi |-> "https://doi.org/10.1/x",
      abstract |-> " We compute phase stability. ", order |-> "1"],
     [id |-> "b2", title |-> "Grain growth", year |-> "in press", venue |-> " ",
      url |-> "doi.org/10.1/y", tags |-> "", abstract |-> "Grains coarsen.", order |-> "first"],
     [id |-> "b1", title |-> "Alloy phases (erratum)", year |-> "2022",
      abstract |-> "Corrects table 2.", order |-> "2"]}

NewsRows ==
    {[id |-> "n1", title |-> "Award", date |-> "2024-01-05", tags |-> "lab award",
      url |-> "https://x/n1"],
     [id |-> "n2", title |-> "Seminar", createdat |-> "soon", tags |-> "",
      image |-> "/news/a.png"],
     [id |-> " ", title |-> "No id", date |-> "2024-02-01"]}

PeopleRows ==
    {[id |-> "m1", name |-> "Kim", role |-> "PI", interests |-> "dft, alloys",
      orcid |-> "0000-0001-2345-678X", order |-> "1"],
     [id |-> "m2", name |-> " Lee ", interests |-> "", methods |-> "md",
      photo |-> "lee.png", orcid |-> "n/a", order |-> ""],
     [id |-> "m3", name |-> " ", order |-> "0"]}

SampleRows(p) ==
    IF p = "projects" THEN ProjectRows
    ELSE IF p = "publications" THEN PublicationRows
    ELSE IF p = "news" THEN NewsRows
    ELSE IF p = "people" THEN PeopleRows
    ELSE ResourceRows

SeqsUpTo(S, n) == UNION {[1..k -> S] : k \in 0..n}

\* What Papa.parse can return as parsed.data for a page's feed.
Feeds(p) == SeqsUpTo(SampleRows(p), MaxRows)

\* The text of a page's feed; only its header line is read outside Papa.
FeedText(p) ==
    IF p = "projects" THEN "id,title,tags,url,startdate,order,imageurl\n"
    ELSE IF p = "publications" THEN "id,title,authors,year,journal,tags,doi,order\r\n"
    ELSE IF p = "news" THEN "id;title;date;tags;url\n"
    ELSE IF p = "people" THEN "ID\tName\tRole\tInterests\tORCID\tOrder\n"
    ELSE "id,title,description,categories,tags,files,createdat\n"

\* (text || "").split(/\r?\n/)[0] || ""
firstLine(text) ==
    LET nl == indexOf(text, "\n")
        line == IF nl = 0 THEN text ELSE SubSeq(text, 1, nl - 1)
    IN  IF line # "" /\ Char(line, Len(line)) = "\r" /\ nl # 0
        THEN SubSeq(line, 1, Len(line) - 1)
        ELSE line

\* A detection that reads the whole text.
detectDelimiterAnywhere(p, text) ==
    LET line == orEmpty(text)
    IN  IF includes(line, "\t") /\ line # ""
        THEN [delimiter |-> "\t", reason |-> "TAB"]
        ELSE IF indexOf(line, ",") > 0
        THEN [delimiter |-> ",", reason |-> "Comma"]
        ELSE IF indexOf(line, ";") > 0
        THEN [delimiter |-> ";", reason |-> "Semicolon"]
        ELSE [delimiter |-> undefined, reason |-> "No obvious delimiter; using Papa default"]

detectDelimiter(p, text) ==
    LET line == firstLine(orEmpty(text))
    IN  IF includes(line, "\t") /\ line # ""
        THEN [delimiter |-> "\t",
              reason |-> IF p = "archive" THEN "Detected TAB in header line"
                         ELSE "TAB delimiter detected in header"]
        ELSE IF indexOf(line, ",") > 0
        THEN [delimiter |-> ",",
              reason |-> IF p = "archive" THEN "Detected comma in header line"
                         ELSE "Comma delimiter detected in header"]
        ELSE IF indexOf(line, ";") > 0
        THEN [delimiter |-> ";",
              reason |-> IF p = "archive" THEN "Detected semicolon in header line"
                         ELSE "Semicolon delimiter detected in header"]
        ELSE [delimiter |-> undefined, reason |-> "No obvious delimiter; using Papa default"]

\* s.slice(0, n)
slice(s, n) == SubSeq(s, 1, IF Len(s) < n THEN Len(s) ELSE n)

\* What load() reads off the feed text besides the rows: the delimiter, and
\* the header line and its fields as Papa reports them in meta.fields.
headerInfo(p, text) ==
    LET det == detectDelimiter(p, text)
        line == firstLine(orEmpty(text))
        fields == IF det.delimiter = undefined THEN <<line>> ELSE split(line, det.delimiter)
    IN  [delimiter |-> IF det.delimiter = undefined THEN "(Papa default)" ELSE det.delimiter,
         delimiterReason |-> det.reason,
         headerLine |-> slice(line, IF p = "archive" THEN 250 ELSE 200),
         parsedFields |-> [i \in 1..Len(fields) |-> toLowerCase(trim(fields[i]))]]

\* The object passed to setDiag after a successful load.
diagOf(p, status, info, parsed) ==
    IF p = "archive"
    THEN [detectedDelimiter |-> info.delimiter,
          delimiterReason |-> info.delimiterReason,
          headerLine |-> info.headerLine,
          parsedFields |-> info.parsedFields,
          sampleRow |-> IF parsed # <<>> THEN parsed[1] ELSE undefinedRow]
    ELSE [status |-> status,
          delimiter |-> info.delimiter,
          delimiterReason |-> info.delimiterReason,
          headerLine |-> info.headerLine,
          parsedFields |-> info.parsedFields]

\* The rows of parsed that are the first to carry their id cell.
RECURSIVE firstOfEachId(_, _)
firstOfEachId(parsed, seen) ==
    IF parsed = <<>> THEN <<>>
    ELSE IF cell(parsed[1], "id") \in seen THEN firstOfEachId(Tail(parsed), seen)
    ELSE <<parsed[1]>> \o firstOfEachId(Tail(parsed), seen \cup {cell(parsed[1], "id")})

\* A pipeline that keeps the first row of each id only.
loadRecordsUnique(p, parsed) ==
    LET once == firstOfEachId(parsed, {})
    IN  LET n == Len(once)
            projects == filterIdTitle([i \in 1..n |-> toProject(headerMapProjects(once[i]))])
            pubs == filterIdTitle([i \in 1..n |-> toPublication(headerMapPublications(once[i]))])
            news == filterIdTitle([i \in 1..n |-> toNewsItem(headerMapNews(once[i]))])
            people == filterIdName([i \in 1..n |-> toPerson(headerMapPeople(once[i]))])
        IN  IF p = "projects"
            THEN sortBy(projects, [j, i \in 1..Len(projects) |-> compareProjects(projects[j], projects[i])])
            ELSE IF p = "publications"
            THEN sortBy(pubs, [j, i \in 1..Len(pubs) |-> comparePublications(pubs[j], pubs[i])])
            ELSE IF p = "news"
            THEN sortBy(news, [j, i \in 1..Len(news) |-> compareNews(news[j], news[i])])
            ELSE IF p = "people"
            THEN sortBy(people, [j, i \in 1..Len(people) |-> comparePeople(people[j], people[i])])
            ELSE IF p = "resources"
            THEN filterIdTitle([i \in 1..n |-> toResourcePage(headerMapResources(once[i]))])
            ELSE filterIdTitle([i \in 1..n |-> toResource(headerMapArchive(once[i]))])

\* rows.map(to...).filter(id && title)[.sort(...)] of each page.
loadRecords(p, parsed) ==
    LET n == Len(parsed)
        projects == filterIdTitle([i \in 1..n |-> toProject(headerMapProjects(parsed[i]))])
        pubs == filterIdTitle([i \in 1..n |-> toPublication(headerMapPublications(parsed[i]))])
        news == filterIdTitle([i \in 1..n |-> toNewsItem(headerMapNews(parsed[i]))])
        people == filterIdName([i \in 1..n |-> toPerson(headerMapPeople(parsed[i]))])
    IN  IF p = "projects"
        THEN sortBy(projects, [j, i \in 1..Len(projects) |-> compareProjects(projects[j], projects[i])])
        ELSE IF p = "publications"
        THEN sortBy(pubs, [j, i \in 1..Len(pubs) |-> comparePublications(pubs[j], pubs[i])])
        ELSE IF p = "news"
        THEN sortBy(news, [j, i \in 1..Len(news) |-> compareNews(news[j], news[i])])
        ELSE IF p = "people"
        THEN sortBy(people, [j, i \in 1..Len(people) |-> comparePeople(people[j], people[i])])
        ELSE IF p = "resources"
        THEN filterIdTitle([i \in 1..n |-> toResourcePage(headerMapResources(parsed[i]))])
        ELSE filterIdTitle([i \in 1..n |-> toResource(headerMapArchive(parsed[i]))])

\* loadRecords tabulated over the feeds of each page.
LoadedTable == UNION {{<<p, feed, loadRecords(p, feed)>> : feed \in Feeds(p)} : p \in Pages}

Loaded(p, feed) == (CHOOSE e \in LoadedTable : e[1] = p /\ e[2] = feed)[3]

MissingUrlMessage(p) ==
    IF p = "projects" THEN "NEXT_PUBLIC_PROJECTS_SHEET_CSV_URL is not set."
    ELSE IF p = "publications" THEN "NEXT_PUBLIC_PUBLICATIONS_SHEET_CSV_URL is not set."
    ELSE IF p = "news" THEN "NEXT_PUBLIC_NEWS_SHEET_CSV_URL is not set."
    ELSE IF p = "people" THEN "NEXT_PUBLIC_PEOPLE_SHEET_CSV_URL is not set."
    ELSE IF p = "resources"
    THEN "NEXT_PUBLIC_SHEET_CSV_URL is not set (and no fallback URL is configured)."
    ELSE "NEXT_PUBLIC_SHEET_CSV_URL is not set."

\* An error text that leaves the status out.
HttpMessageNoStatus(p, status) ==
    IF p = "archive" THEN "Failed to fetch sheet export" ELSE "HTTP error"

HttpMessage(p, status) ==
    IF p = "archive" THEN "Failed to fetch sheet export: HTTP " \o ToString(status)
    ELSE "HTTP " \o ToString(status)

UnknownMessage(p) ==
    IF p = "projects" THEN "Unknown error while loading Projects sheet."
    ELSE IF p = "publications" THEN "Unknown error while loading Publications sheet."
    ELSE IF p = "news" THEN "Unknown error while loading News sheet."
    ELSE IF p = "people" THEN "Unknown error while loading People sheet."
    ELSE "Unknown error while loading sheet."

\* e?.message ? String(e.message) : "Unknown error ..."
catchMessage(p, m) == IF m # "" THEN m ELSE UnknownMessage(p)

\* The statuses fetch resolves with, and the messages a rejection carries.
Statuses == {200, 500}
ThrownMessages == {"Failed to fetch", ""}

\* headerInfo tabulated over the pages.
HeaderTable == {<<p, headerInfo(p, FeedText(p))>> : p \in Pages}

HeaderInfo(p) == (CHOOSE e \in HeaderTable : e[1] = p)[2]

NoOutcome == [kind |-> "none", feed |-> <<>>, msg |-> ""]
Pending == [kind |-> "pending", feed |-> <<>>, msg |-> ""]

InFlight == {l \in 1..Len(loads) : loads[l].pc # "done"}

\* History: every load in flight now overlaps the one being started.
markOverlap(ls) ==
    [l \in 1..Len(ls) |-> IF ls[l].pc # "done" THEN [ls[l] EXCEPT !.overlapped = TRUE] ELSE ls[l]]

\* The cleanup of the archive effect: cancelled = true in its closure.
cancelAll(ls) == [l \in 1..Len(ls) |-> [ls[l] EXCEPT !.cancelled = TRUE]]

PageInit ==
    /\ page \in Pages
    /\ sheetUrl \in ConfiguredUrls(page)
    /\ rows = <<>>
    /\ loading = TRUE
    /\ errMsg = null
    /\ usedUrl = ""
    /\ diag = nullDiag
    /\ query = ""
    /\ tab = "all"
    /\ mounted = TRUE
    /\ loads = <<>>
    /\ latest = NoOutcome
    /\ lastCompleted = 0
    /\ openAbsId = null

\* load() calling fetch whether or not a feed URL is configured.
BeginAlwaysFetch(before) ==
    /\ loading' = TRUE
    /\ errMsg' = null
    /\ diag' = nullDiag
    /\ loads' = Append(markOverlap(before),
                       [pc |-> "fetch", status |-> 0,
                        overlapped |-> \E l \in 1..Len(before) : before[l].pc # "done",
                        cancelled |-> FALSE, outcome |-> "pending", left |-> 0,
                        fetches |-> 1])
    /\ latest' = Pending
    /\ usedUrl' = IF page = "archive" THEN usedUrl ELSE sheetUrl
    /\ UNCHANGED <<rows, lastCompleted>>

\* A load() that leaves the diagnostics of the previous load in place.
BeginKeepingDiag(before) ==
    IF sheetUrl = ""
    THEN /\ rows' = <<>>
         /\ errMsg' = MissingUrlMessage(page)
         /\ UNCHANGED diag
         /\ loading' = FALSE
         /\ loads' = Append(markOverlap(before),
                            [pc |-> "done", status |-> 0, overlapped |-> FALSE,
                             cancelled |-> FALSE, outcome |-> "fail", left |-> 0,
                             fetches |-> 0])
         /\ latest' = [kind |-> "fail", feed |-> <<>>, msg |-> MissingUrlMessage(page)]
         /\ lastCompleted' = Len(before) + 1
         /\ UNCHANGED usedUrl
    ELSE /\ loading' = TRUE
         /\ errMsg' = null
         /\ UNCHANGED diag
         /\ loads' = Append(markOverlap(before),
                            [pc |-> "fetch", status |-> 0,
                             overlapped |-> \E l \in 1..Len(before) : before[l].pc # "done",
                             cancelled |-> FALSE, outcome |-> "pending", left |-> 0,
                             fetches |-> 1])
         /\ latest' = Pending
         /\ usedUrl' = IF page = "archive" THEN usedUrl ELSE sheetUrl
         /\ UNCHANGED <<rows, lastCompleted>>

\* load() up to its first await, called with the loads made before it.
Begin(before) ==
    IF sheetUrl = ""
    THEN /\ rows' = <<>>
         /\ errMsg' = MissingUrlMessage(page)
         /\ diag' = nullDiag
         /\ loading' = FALSE
         /\ loads' = Append(markOverlap(before),
                            [pc |-> "done", status |-> 0, overlapped |-> FALSE,
                             cancelled |-> FALSE, outcome |-> "fail", left |-> 0,
                             fetches |-> 0])
         /\ latest' = [kind |-> "fail", feed |-> <<>>, msg |-> MissingUrlMessage(page)]
         /\ lastCompleted' = Len(before) + 1
         /\ UNCHANGED usedUrl
    ELSE /\ loading' = TRUE
         /\ errMsg' = null
         /\ diag' = nullDiag
         /\ loads' = Append(markOverlap(before),
                            [pc |-> "fetch", status |-> 0,
                             overlapped |-> \E l \in 1..Len(before) : before[l].pc # "done",
                             cancelled |-> FALSE, outcome |-> "pending", left |-> 0,
                             fetches |-> 1])
         /\ latest' = Pending
         /\ usedUrl' = IF page = "archive" THEN usedUrl ELSE sheetUrl
         /\ UNCHANGED <<rows, lastCompleted>>

\* useEffect(() => { load() }, [sheetUrl]) on mount.
Mount ==
    /\ mounted
    /\ loads = <<>>
    /\ Begin(loads)
    /\ UNCHANGED <<page, sheetUrl, query, tab, mounted>>
    /\ UNCHANGED fnVars
    /\ UNCHANGED openAbsId

\* The Reload button.
Reload ==
    /\ mounted
    /\ page \in ReloadPages
    /\ loads # <<>>
    /\ Len(loads) < MaxLoads
    /\ Begin(loads)
    /\ UNCHANGED <<page, sheetUrl, query, tab, mounted>>
    /\ UNCHANGED fnVars
    /\ UNCHANGED openAbsId

\* The archive effect runs again: its cleanup, then a new load().
EffectRerun ==
    /\ mounted
    /\ page = "archive"
    /\ loads # <<>>
    /\ Len(loads) < MaxLoads
    /\ Begin(cancelAll(loads))
    /\ UNCHANGED <<page, sheetUrl, query, tab, mounted>>
    /\ UNCHANGED fnVars
    /\ UNCHANGED openAbsId

\* The archive component is torn down: the effect's cleanup runs.
Unmount ==
    /\ mounted
    /\ page = "archive"
    /\ loads # <<>>
    /\ mounted' = FALSE
    /\ loads' = cancelAll(loads)
    /\ UNCHANGED <<page, sheetUrl, rows, loading, errMsg, usedUrl, diag, query, tab, latest,
                   lastCompleted>>
    /\ UNCHANGED fnVars
    /\ UNCHANGED openAbsId

\* History kept when load l completes, status being the last res.status
\* it has read (0 if none).
Settled(l, kind, feed, msg, status) ==
    /\ loads' = [loads EXCEPT ![l].pc = "done", ![l].outcome = kind,
                              ![l].status = status,
                              ![l].left = IF kind = "ok" /\ ~loads[l].cancelled
                                          THEN Len(rows') ELSE 0]
    /\ latest' = IF l = Len(loads) THEN [kind |-> kind, feed |-> feed, msg |-> msg]
                 ELSE latest
    /\ lastCompleted' = l

Completed(l, kind, feed, msg) == Settled(l, kind, feed, msg, loads[l].status)

\* A catch block that leaves the record set as it was.
FailKeepingRows(l, msg) ==
    /\ IF loads[l].cancelled
       THEN UNCHANGED <<rows, errMsg, loading>>
       ELSE /\ errMsg' = msg
            /\ loading' = FALSE
            /\ UNCHANGED rows
    /\ Completed(l, "fail", <<>>, msg)
    /\ UNCHANGED <<page, sheetUrl, usedUrl, diag, query, tab, mounted>>
    /\ UNCHANGED fnVars
    /\ UNCHANGED openAbsId

\* A catch block that fetches again, once.
FailWithRetry(l, msg, status) ==
    /\ IF loads[l].cancelled
       THEN UNCHANGED <<rows, errMsg, loading>>
       ELSE /\ rows' = <<>>
            /\ errMsg' = msg
            /\ loading' = FALSE
    /\ IF loads[l].fetches < 2
       THEN /\ loads' = [loads EXCEPT ![l].pc = "fetch", ![l].fetches = @ + 1]
            /\ UNCHANGED <<latest, lastCompleted>>
       ELSE Settled(l, "fail", <<>>, msg, status)
    /\ UNCHANGED <<page, sheetUrl, usedUrl, diag, query, tab, mounted>>
    /\ UNCHANGED fnVars
    /\ UNCHANGED openAbsId

\* The catch and finally blocks of load l, entered after reading status.
FailWith(l, msg, status) ==
    /\ IF loads[l].cancelled
       THEN UNCHANGED <<rows, errMsg, loading>>
       ELSE /\ rows' = <<>>
            /\ errMsg' = msg
            /\ loading' = FALSE
    /\ Settled(l, "fail", <<>>, msg, status)
    /\ UNCHANGED <<page, sheetUrl, usedUrl, diag, query, tab, mounted>>
    /\ UNCHANGED fnVars
    /\ UNCHANGED openAbsId

\* The catch and finally blocks of load l.
Fail(l, msg) == FailWith(l, msg, loads[l].status)

\* await fetch(...) resolves; a non-ok status throws.
FetchResolve ==
    \E l \in InFlight, status \in Statuses :
        /\ loads[l].pc = "fetch"
        /\ IF status \in 200..299
           THEN /\ loads' = [loads EXCEPT ![l].pc = "text", ![l].status = status]
                /\ UNCHANGED <<page, sheetUrl, rows, loading, errMsg, usedUrl, diag, query, tab,
                               mounted, latest, lastCompleted>>
                /\ UNCHANGED fnVars
                /\ UNCHANGED openAbsId
           ELSE FailWith(l, HttpMessage(page, status), status)

\* await fetch(...) rejects.
FetchReject ==
    \E l \in InFlight, m \in ThrownMessages :
        /\ loads[l].pc = "fetch"
        /\ Fail(l, catchMessage(page, m))

\* await res.text() rejects.
TextReject ==
    \E l \in InFlight, m \in ThrownMessages :
        /\ loads[l].pc = "text"
        /\ Fail(l, catchMessage(page, m))

\* await res.text() resolves and Papa.parse throws.
ParseThrow ==
    \E l \in InFlight, m \in ThrownMessages :
        /\ loads[l].pc = "text"
        /\ Fail(l, catchMessage(page, m))

\* A success path without the finally block: loading is left as it was.
DeliverNoFinally(l, feed, data) ==
    /\ loads[l].pc = "text"
    /\ IF loads[l].cancelled
       THEN UNCHANGED <<rows, diag>>
       ELSE /\ rows' = data
            /\ diag' = diagOf(page, loads[l].status, HeaderInfo(page), feed)
    /\ UNCHANGED loading
    /\ Completed(l, "ok", feed, "")
    /\ UNCHANGED <<page, sheetUrl, errMsg, usedUrl, query, tab, mounted>>
    /\ UNCHANGED fnVars
    /\ UNCHANGED openAbsId

\* A success path that adds the new records to those already shown.
DeliverMerging(l, feed, data) ==
    /\ loads[l].pc = "text"
    /\ IF loads[l].cancelled
       THEN UNCHANGED <<rows, diag, loading>>
       ELSE /\ rows' = rows \o data
            /\ diag' = diagOf(page, loads[l].status, HeaderInfo(page), feed)
            /\ loading' = FALSE
    /\ Completed(l, "ok", feed, "")
    /\ UNCHANGED <<page, sheetUrl, errMsg, usedUrl, query, tab, mounted>>
    /\ UNCHANGED fnVars
    /\ UNCHANGED openAbsId

\* A success path that writes whether or not the effect was cleaned up.
DeliverIgnoringCancel(l, feed, data) ==
    /\ loads[l].pc = "text"
    /\ rows' = data
    /\ diag' = diagOf(page, loads[l].status, HeaderInfo(page), feed)
    /\ loading' = FALSE
    /\ Completed(l, "ok", feed, "")
    /\ UNCHANGED <<page, sheetUrl, errMsg, usedUrl, query, tab, mounted>>
    /\ UNCHANGED fnVars
    /\ UNCHANGED openAbsId

\* The rest of the try block of load l, once Papa.parse has returned feed
\* and data are the records made of it.
Deliver(l, feed, data) ==
    /\ loads[l].pc = "text"
    /\ IF loads[l].cancelled
       THEN UNCHANGED <<rows, diag, loading>>
       ELSE /\ rows' = data
            /\ diag' = diagOf(page, loads[l].status, HeaderInfo(page), feed)
            /\ loading' = FALSE
    /\ Completed(l, "ok", feed, "")
    /\ UNCHANGED <<page, sheetUrl, errMsg, usedUrl, query, tab, mounted>>
    /\ UNCHANGED fnVars
    /\ UNCHANGED openAbsId

\* await res.text() resolves and the rest of the try block runs.
TextResolve ==
    \E l \in InFlight, feed \in Feeds(page) : Deliver(l, feed, Loaded(page, feed))

Init ==
    /\ PageInit
    /\ fnName = "none"
    /\ fnIn = ""
    /\ fnOut = <<>>
    /\ fnPc = "idle"

\* The publication cards the page renders: none while loading or after an
\* error.
cards ==
    IF page = "publications" /\ mounted /\ ~loading /\ errMsg = null THEN filtered ELSE <<>>

\* onClick of a card's Abstract button (disabled without an abstract):
\* toggleAbstract(p.id).
ToggleAbstract ==
    \E k \in 1..Len(cards) :
        /\ cards[k].abstract # undefined
        /\ openAbsId' = IF openAbsId = cards[k].id THEN null ELSE cards[k].id
        /\ UNCHANGED <<page, sheetUrl, rows, loading, errMsg, usedUrl, diag, query, tab, mounted,
                       loads, latest, lastCompleted>>
        /\ UNCHANGED fnVars

Next ==
    \/ Mount
    \/ Reload
    \/ EffectRerun
    \/ Unmount
    \/ FetchResolve
    \/ FetchReject
    \/ TextReject
    \/ ParseThrow
    \/ TextResolve
    \/ ToggleAbstract

Spec == Init /\ [][Next]_vars

\* A step of a load suspended at an await: the promise settles and the
\* code after the await runs.
LoadStep == FetchResolve \/ FetchReject \/ TextReject \/ ParseThrow \/ TextResolve

\* The loader when the mount effect runs and every promise awaited by a
\* load settles.
SpecLive == Init /\ [][Next]_vars /\ WF_loads(Mount) /\ WF_loads(LoadStep)

(***************************************************************************)
(* One load of a page delivering a feed made to probe single cells: the    *)
(* order cell of two otherwise equal rows, a link cell, an image cell.     *)
(***************************************************************************)
\* Pages whose records are sorted by their order cell first.
OrderPages == {"projects", "publications", "people"}

\* Order cells; undefined is a row without the column.
OrderCells == {undefined, "", " ", "n/a", "-5", "0", "7", "9998", "9999", "10000"}

\* A row with the given id whose title (name on the people page) is "t",
\* and with cell c in column k unless c is undefined.
ProbeRow(p, id, k, c) ==
    LET base == IF p = "people" THEN [id |-> id, name |-> "t"] ELSE [id |-> id, title |-> "t"]
    IN  IF c = undefined THEN base ELSE (k :> c) @@ base

OrderFeeds(p) ==
    IF p \in OrderPages
    THEN {<<ProbeRow(p, "o1", "order", c), ProbeRow(p, "o2", "order", d)>> :
              c \in OrderCells, d \in OrderCells}
    ELSE {}

\* Link cells; undefined is a row without the column.
LinkCells ==
    {undefined, "", " https://x/a ", "http://x", "ftp://x", "x.org", "/local", "HTTPS://X",
     "mailto:a@x"}

DoiCells == {undefined, " ", "10.1/x", " https://doi.org/10.1/x", "http://doi.org/10.1/x"}

\* Row r with cell c in column k unless c is undefined.
WithCell(r, k, c) == IF c = undefined THEN r ELSE (k :> c) @@ r

\* One row "k1" with a cell in each link column of the page.
LinkFeeds(p) ==
    IF p = "projects"
    THEN {<<WithCell(ProbeRow(p, "k1", "url", c), "repo", d)>> : c \in LinkCells, d \in LinkCells}
    ELSE IF p = "publications"
    THEN {<<WithCell(WithCell(ProbeRow(p, "k1", "url", c), "pdf", d), "doi", e)>> :
              c \in LinkCells, d \in LinkCells, e \in DoiCells}
    ELSE IF p = "people"
    THEN {<<ProbeRow(p, "k1", "website", c)>> : c \in LinkCells}
    ELSE IF p = "news"
    THEN {<<ProbeRow(p, "k1", "url", c)>> : c \in LinkCells}
    ELSE {}

\* Image cells; undefined is a row without the column.
ImageCells ==
    {undefined, "", " ", " /people/a.png ", "https://x/a.png", " http://x/b.png", "people/a.png",
     "./a.png", "data:image/png", "//cdn/x.png"}

\* The column the page reads its image from.
imageColumn(p) == IF p = "people" THEN "photourl" ELSE "imageurl"

\* One row "i1" with a cell in the image column of the page.
ImageFeeds(p) ==
    IF p \in {"projects", "people", "news"}
    THEN {<<ProbeRow(p, "i1", imageColumn(p), c)>> : c \in ImageCells}
    ELSE {}

\* Title cells of rows sharing an id; undefined leaves the title "t".
DuplicateTitles == {undefined, "u", "", " "}

\* Two or three rows that all carry the id "d1".
DuplicateFeeds(p) ==
    LET k == IF p = "people" THEN "name" ELSE "title"
    IN  {<<ProbeRow(p, "d1", k, a), ProbeRow(p, "d1", k, b)>> :
             a \in DuplicateTitles, b \in DuplicateTitles}
        \cup {<<ProbeRow(p, "d1", k, a), ProbeRow(p, "d1", k, b), ProbeRow(p, "d1", k, c)>> :
                  a \in DuplicateTitles, b \in DuplicateTitles, c \in DuplicateTitles}

\* Rows for the base ordering: an order cell, a title (name) and, on the
\* publications page, a year cell.
SortRows(p, id) ==
    IF p = "publications"
    THEN {WithCell(WithCell(ProbeRow(p, id, "title", t), "order", o), "year", y) :
              t \in {"a", "b"}, o \in {undefined, "1"}, y \in {undefined, "2020", "2021"}}
    ELSE {WithCell(ProbeRow(p, id, IF p = "people" THEN "name" ELSE "title", t), "order", o) :
              t \in {"a", "B", "b"}, o \in {undefined, "1", "2"}}

\* Three rows "s1", "s2", "s3" in every arrangement of those cells.
SortFeeds(p) ==
    IF p \in OrderPages
    THEN {<<a, b, c>> : a \in SortRows(p, "s1"), b \in SortRows(p, "s2"), c \in SortRows(p, "s3")}
    ELSE {}

\* The cells of column h in the alias rows: no column, an empty cell, or the
\* column's own name followed by a space.
AliasCells(h) == {undefined, "", h \o " "}

\* One row marked by a probe column, with every arrangement of cells in the
\* columns that feed one field: id and title of the archive, abstract of a
\* publication, description of a project.
AliasRows(p) ==
    IF p = "archive"
    THEN {WithCell(WithCell(WithCell(WithCell([probe |-> "alias"], "id", a), "ko_id", b),
                            "title", c), "ko_title", d) :
              a \in AliasCells("id"), b \in AliasCells("ko_id"),
              c \in AliasCells("title"), d \in AliasCells("ko_title")}
    ELSE IF p = "publications"
    THEN {WithCell(WithCell(WithCell(ProbeRow(p, "a1", "probe", "alias"), "abstract", a),
                            "summary", b), "ko_abstract", c) :
              a \in AliasCells("abstract"), b \in AliasCells("summary"),
              c \in AliasCells("ko_abstract")}
    ELSE IF p = "projects"
    THEN {WithCell(WithCell(WithCell(ProbeRow(p, "a1", "probe", "alias"), "description", a),
                            "desc", b), "summary", c) :
              a \in AliasCells("description"), b \in AliasCells("desc"),
              c \in AliasCells("summary")}
    ELSE {}

AliasFeeds(p) == {<<r>> : r \in AliasRows(p)}

ProbeFeeds(p) ==
    OrderFeeds(p) \cup LinkFeeds(p) \cup ImageFeeds(p) \cup DuplicateFeeds(p) \cup SortFeeds(p)
        \cup AliasFeeds(p)

\* The page after its first load's fetch has resolved with status 200.
ProbeInit ==
    /\ page \in Pages
    /\ sheetUrl = FeedUrl
    /\ rows = <<>>
    /\ loading = TRUE
    /\ errMsg = null
    /\ usedUrl = IF page = "archive" THEN "" ELSE sheetUrl
    /\ diag = nullDiag
    /\ query = ""
    /\ tab = "all"
    /\ mounted = TRUE
    /\ loads = <<[pc |-> "text", status |-> 200, overlapped |-> FALSE,
                  cancelled |-> FALSE, outcome |-> "pending", left |-> 0,
                  fetches |-> 1]>>
    /\ latest = Pending
    /\ lastCompleted = 0
    /\ openAbsId = null
    /\ fnName = "none"
    /\ fnIn = ""
    /\ fnOut = <<>>
    /\ fnPc = "idle"

\* await res.text() resolves with one of the probing feeds.
TextResolveProbe ==
    \E l \in InFlight, feed \in ProbeFeeds(page) : Deliver(l, feed, loadRecords(page, feed))

ProbeNext == TextResolveProbe

SpecProbe == ProbeInit /\ [][ProbeNext]_vars

(***************************************************************************)
(* The filter view of a loaded resources page or archive component.        *)
(***************************************************************************)
FilterPages == {"resources", "archive"}

\* Pages of this model with a search box.
QueryPages == FilterPages \cup {"projects"}

\* What the search box is made to hold.
SampleQueries ==
    {"", "  ", "python", "PYTHON ", "Python code", "b", "slides", "2024", "lecture 1",
     "intro python basics", "zzz"}

\* The page after its first load has delivered a feed.
FilterInit ==
    /\ page \in QueryPages
    /\ sheetUrl = FeedUrl
    /\ \E feed \in Feeds(page) :
        /\ rows = Loaded(page, feed)
        /\ diag = diagOf(page, 200, HeaderInfo(page), feed)
        /\ loads = <<[pc |-> "done", status |-> 200, overlapped |-> FALSE,
                      cancelled |-> FALSE, outcome |-> "ok",
                      left |-> Len(Loaded(page, feed)), fetches |-> 1]>>
        /\ latest = [kind |-> "ok", feed |-> feed, msg |-> ""]
    /\ loading = FALSE
    /\ errMsg = null
    /\ usedUrl = IF page = "archive" THEN "" ELSE sheetUrl
    /\ query = ""
    /\ tab = "all"
    /\ mounted = TRUE
    /\ lastCompleted = 1
    /\ openAbsId = null
    /\ fnName = "none"
    /\ fnIn = ""
    /\ fnOut = <<>>
    /\ fnPc = "idle"

\* A search box whose every change also calls load().
SetQueryRefetching ==
    \E q \in SampleQueries :
        /\ mounted
        /\ page \in QueryPages
        /\ query' = q
        /\ Len(loads) < MaxLoads
        /\ Begin(loads)
        /\ UNCHANGED <<page, sheetUrl, tab, mounted>>
        /\ UNCHANGED fnVars
        /\ UNCHANGED openAbsId

\* onChange of the search box: setQuery(e.target.value).
SetQuery ==
    \E q \in SampleQueries :
        /\ mounted
        /\ page \in QueryPages
        /\ query' = q
        /\ UNCHANGED <<page, sheetUrl, rows, loading, errMsg, usedUrl, diag, tab, mounted,
                       loads, latest, lastCompleted>>
        /\ UNCHANGED fnVars
        /\ UNCHANGED openAbsId

\* onClick of a category tab: setTab(t.key).
SetTab ==
    \E t \in TabKeys :
        /\ mounted
        /\ page \in FilterPages
        /\ tab' = t
        /\ UNCHANGED <<page, sheetUrl, rows, loading, errMsg, usedUrl, diag, query, mounted,
                       loads, latest, lastCompleted>>
        /\ UNCHANGED fnVars
        /\ UNCHANGED openAbsId

FilterNext == SetQuery \/ SetTab

SpecFilter == FilterInit /\ [][FilterNext]_vars

\* The page from its construction, with the search box and the tabs in use
\* while loads start and complete.
InputNext == Next \/ SetQuery \/ SetTab

SpecInput == Init /\ [][InputNext]_vars

(***************************************************************************)
(* Normalizer harness: one cell text, one call of one normalizer.          *)
(***************************************************************************)
RECURSIVE Texts(_, _)
Texts(pieces, n) ==
    IF n = 0 THEN {""}
    ELSE LET shorter == Texts(pieces, n - 1)
         IN  shorter \cup {t \o p : t \in shorter, p \in pieces}

ListPieces == {"a", "b", " ", ",", ";", "|"}
ListExamples == {"a, b,c", "a;b;c", "a b c", " a\t b ", "a,;b|c"}

CategoryPieces == {"article", "Py", "python code", "x", " ", ",", ";", "|"}
CategoryExamples ==
    {"article lecture", "workshop", "tool", "TOOL", "py", "Python Code",
     "lecture", "python", "article, lecture; python", "Tool|workshop|LECTURE"}

FilePieces == {"Slides", "https://x/a.pdf", "::", ":", "|", " "}
FileExamples ==
    {"Slides::https://x/a.pdf|https://x/b.pdf", "httpfoo", "::https://x/a.pdf",
     "Slides::", "notes.pdf"}

\* Date cells: date-only forms with valid and invalid months and days,
\* expanded years inside and outside the time range, free-form and
\* unparseable texts, bare and padded with white space.
DateYears == {"2024", "0001", "+002024", "+010000", "-000001", "+275760", "+999999"}
DateMonths == {"01", "02", "09", "13"}
DateDays == {"05", "14", "30"}
DateForms == {y \o "-" \o m \o "-" \o d : y \in DateYears, m \in DateMonths, d \in DateDays}
DateCells ==
    {undefined, "", " ", "soon", " TBA ", "2023/12/31", " Jan 5, 2024 ", "2024-01", "-"}
        \cup DateForms \cup {" " \o t \o "\t" : t \in DateForms}

DateFns == {"normalizeDate", "normalizeDateNews", "normalizeCreatedAt"}

\* Feed texts given to detectDelimiter.
DelimiterPieces == {"a", "\t", ",", ";", "\n", "\r"}
DelimiterExamples == {"id;title\r\nx,y\n", "id\ttitle,a;b\n", "id title\n1,2\n", "a\rb,c\n"}

DelimiterFns == {"detectDelimiter", "detectDelimiterPeople"}

FnNames == {"tags", "interests", "categories", "files"} \cup DateFns \cup DelimiterFns

FnInputs(f) ==
    CASE f = "tags" -> Texts(ListPieces, MaxLen) \cup ListExamples
      [] f = "interests" -> Texts(ListPieces, MaxLen) \cup ListExamples
      [] f = "categories" -> Texts(CategoryPieces, MaxLen) \cup CategoryExamples
      [] f = "files" -> Texts(FilePieces, MaxLen) \cup FileExamples
      [] f \in DateFns -> DateCells
      [] f \in DelimiterFns -> Texts(DelimiterPieces, MaxLen) \cup DelimiterExamples

\* No page is mounted while the harness runs.
PageIdle ==
    /\ page = "none"
    /\ sheetUrl = ""
    /\ rows = <<>>
    /\ loading = FALSE
    /\ errMsg = null
    /\ usedUrl = ""
    /\ diag = nullDiag
    /\ query = ""
    /\ tab = "all"
    /\ mounted = FALSE
    /\ loads = <<>>
    /\ latest = NoOutcome
    /\ lastCompleted = 0
    /\ openAbsId = null

FnInit ==
    /\ PageIdle
    /\ fnName \in FnNames
    /\ fnIn \in FnInputs(fnName)
    /\ fnOut = <<>>
    /\ fnPc = "ready"

Apply(f, result) ==
    /\ fnPc = "ready"
    /\ fnName = f
    /\ fnOut' = result
    /\ fnPc' = "done"
    /\ UNCHANGED <<fnName, fnIn>>
    /\ UNCHANGED pageVars

ApplyTags == Apply("tags", normalizeTags(fnIn))
ApplyInterests == Apply("interests", normalizeListPeople(fnIn))
ApplyCategories == Apply("categories", normalizeCategories(fnIn))
ApplyFiles == Apply("files", normalizeFiles(fnIn))
ApplyDate == Apply("normalizeDate", normalizeDate(fnIn))
ApplyDateNews == Apply("normalizeDateNews", normalizeDate(fnIn))
ApplyCreatedAt == Apply("normalizeCreatedAt", normalizeCreatedAt(fnIn))
ApplyDetect == Apply("detectDelimiter", detectDelimiter("archive", fnIn))
ApplyDetectPeople == Apply("detectDelimiterPeople", detectDelimiter("people", fnIn))

FnNext ==
    \/ ApplyTags
    \/ ApplyInterests
    \/ ApplyCategories
    \/ ApplyFiles
    \/ ApplyDate
    \/ ApplyDateNews
    \/ ApplyCreatedAt
    \/ ApplyDetect
    \/ ApplyDetectPeople

SpecFn == FnInit /\ [][FnNext]_vars

(***************************************************************************)
(* Properties.  The Ref* operators restate each claim position by          *)
(* position, independently of split / map / filter.                        *)
(***************************************************************************)
RECURSIVE Ascending(_)
Ascending(S) == IF S = {} THEN <<>> ELSE <<Min(S)>> \o Ascending(S \ {Min(S)})

\* t without its leading and trailing white space.
RefTrim(t) ==
    LET solid == {i \in 1..Len(t) : Char(t, i) \notin WhiteSpace}
    IN  IF solid = {} THEN "" ELSE SubSeq(t, Min(solid), Max(solid))

(***************************************************************************)
(* Properties of the feed loader.                                          *)
(***************************************************************************)
\* The cell texts of a parsed row under the page's column names.
RowValues(p, r) ==
    IF p = "projects" THEN headerMapProjects(r)
    ELSE IF p = "publications" THEN headerMapPublications(r)
    ELSE IF p = "news" THEN headerMapNews(r)
    ELSE IF p = "people" THEN headerMapPeople(r)
    ELSE IF p = "resources" THEN headerMapResources(r)
    ELSE headerMapArchive(r)

RefText(v) == IF v = undefined THEN "" ELSE v

RowId(p, r) == RefTrim(RefText(RowValues(p, r).id))
RowTitle(p, r) ==
    IF p = "people" THEN RefTrim(RefText(RowValues(p, r).name))
    ELSE RefTrim(RefText(RowValues(p, r).title))

RecordTitle(p, rec) == IF p = "people" THEN rec.name ELSE rec.title

\* The most recently triggered load succeeded, completed last, and its
\* result is what the page shows.
LatestDelivered ==
    /\ loads # <<>>
    /\ lastCompleted = Len(loads)
    /\ latest.kind = "ok"
    /\ ~loads[Len(loads)].cancelled

\* C1: after a successful load the record set holds a record derived from a
\* parsed row if and only if the row's trimmed id and trimmed title are both
\* non-empty; nothing else (empty tags, invalid URL, unparseable date,
\* missing order) drops a row.
C1_RowKeptIffIdAndTitle ==
    LatestDelivered =>
        LET feed == latest.feed
            kept == {i \in 1..Len(feed) : RowId(page, feed[i]) # "" /\ RowTitle(page, feed[i]) # ""}
        IN  \E g \in [1..Len(rows) -> kept] :
                /\ \A i \in kept : \E j \in 1..Len(rows) : g[j] = i
                /\ \A j, k \in 1..Len(rows) : g[j] = g[k] => j = k
                /\ \A j \in 1..Len(rows) :
                       /\ rows[j].id = RowId(page, feed[g[j]])
                       /\ RecordTitle(page, rows[j]) = RowTitle(page, feed[g[j]])

C1_Witness ==
    /\ LatestDelivered
    /\ page = "projects"
    /\ Len(latest.feed) = 2
    /\ Len(rows) = 1
    /\ rows[1].id = "p2"
    /\ rows[1].tags = <<>>
    /\ rows[1].url = undefined
    /\ rows[1].order = ORDER_FALLBACK

\* C2: on a page with a Reload button, when a second load is triggered while
\* the first is in flight, then once both have completed the record set and
\* the error message are those of the second load, whichever response
\* arrived last.
C2_SecondLoadWins ==
    (/\ page \in ReloadPages
     /\ Len(loads) = 2
     /\ loads[1].overlapped
     /\ InFlight = {}) =>
        /\ latest.kind = "ok" => rows = Loaded(page, latest.feed) /\ errMsg = null
        /\ latest.kind = "fail" => rows = <<>> /\ errMsg = latest.msg

\* The last load to complete overlapped no other load and failed, and the
\* page is still mounted.
LoneLoadFailed ==
    /\ mounted
    /\ loads # <<>>
    /\ lastCompleted = Len(loads)
    /\ loads[Len(loads)].outcome = "fail"
    /\ ~loads[Len(loads)].overlapped

\* C3: when a load that overlaps no other load fails (no feed URL, non-ok
\* status, fetch rejecting, parser throwing), on its completion the record
\* set is empty, the error message is a non-empty string and loading is
\* false, whatever an earlier successful load had left in the record set.
C3_FailureClearsRows ==
    LoneLoadFailed =>
        /\ rows = <<>>
        /\ errMsg \notin {null, undefined, ""}
        /\ loading = FALSE

C3_Witness ==
    /\ LoneLoadFailed
    /\ Len(loads) = 2
    /\ loads[1].outcome = "ok"
    /\ loads[1].left > 0
    /\ rows = <<>>
    /\ errMsg = "HTTP 500"

\* C4: on the pages with a Reload button, whenever no load is in flight the
\* page shows either success (no error message) or failure (an error message
\* and an empty record set), never an error message with records, whatever
\* the order in which overlapping loads complete.
C4_NoErrorWithRows ==
    (page \in ReloadPages /\ loads # <<>> /\ InFlight = {}) =>
        \/ errMsg = null
        \/ errMsg # null /\ rows = <<>>

\* C12: when the configured feed URL is absent or empty, a triggered load
\* fails with an error message before any fetch is issued: that load issues
\* no fetch and the record set is empty afterwards.
C12_NoFetchWithoutUrl ==
    (sheetUrl = "" /\ loads # <<>>) =>
        /\ \A l \in 1..Len(loads) :
               /\ loads[l].fetches = 0
               /\ loads[l].pc = "done"
               /\ loads[l].outcome = "fail"
        /\ rows = <<>>
        /\ errMsg = MissingUrlMessage(page)
        /\ errMsg # ""
        /\ loading = FALSE

C12_Witness ==
    /\ sheetUrl = ""
    /\ page = "archive"
    /\ Len(loads) = 2
    /\ loads[2].fetches = 0
    /\ rows = <<>>
    /\ errMsg = "NEXT_PUBLIC_SHEET_CSV_URL is not set."

\* Load l delivers a parsed feed in this step, its effect being live.
Delivers(l) ==
    /\ loads[l].pc = "text"
    /\ loads'[l].pc = "done"
    /\ loads'[l].outcome = "ok"
    /\ ~loads[l].cancelled

\* No row of the feed has both a non-empty id and a non-empty title.
EveryRowDropped(p, feed) ==
    /\ feed # <<>>
    /\ \A i \in 1..Len(feed) : RowId(p, feed[i]) = "" \/ RowTitle(p, feed[i]) = ""

\* C14: when the most recently triggered load delivers a parsed feed of
\* which every row lacks a non-empty id or title, the load completes with an
\* empty record set and a null error message.
C14_AllDroppedIsEmptyResult ==
    [][(/\ loads # <<>>
        /\ Delivers(Len(loads))
        /\ EveryRowDropped(page, latest'.feed)) =>
           /\ rows' = <<>>
           /\ errMsg' = null]_<<loads, rows, errMsg>>

\* q occurs in h.
RefContains(h, q) == \E i \in 0..(Len(h) - Len(q)) : SubSeq(h, i + 1, i + Len(q)) = q

\* The text of a status code.
RefStatusText(st) == ToString(st)

\* C13: when the fetch of a load whose effect is still live resolves with a
\* non-success status, the load fails in that step without reaching the
\* parser, the record set is empty and the error message contains the
\* status code.
C13_BadStatusFails ==
    [][\A l \in 1..Len(loads) :
          (/\ loads[l].pc = "fetch"
           /\ loads'[l].pc # "fetch"
           /\ loads'[l].status # 0
           /\ loads'[l].status \notin 200..299
           /\ ~loads[l].cancelled) =>
              /\ loads'[l].pc = "done"
              /\ loads'[l].outcome = "fail"
              /\ rows' = <<>>
              /\ errMsg' # null
              /\ RefContains(errMsg', RefStatusText(loads'[l].status))
              /\ loading' = FALSE]_vars

C13_Witness ==
    /\ loads # <<>>
    /\ lastCompleted = Len(loads)
    /\ loads[Len(loads)].status = 500
    /\ loads[Len(loads)].outcome = "fail"
    /\ ~loads[Len(loads)].cancelled
    /\ rows = <<>>
    /\ errMsg = "Failed to fetch sheet export: HTTP 500"

\* t is non-empty and has no white space at either end.
Trimmed(t) == t # "" /\ Char(t, 1) \notin WhiteSpace /\ Char(t, Len(t)) \notin WhiteSpace

\* The non-image link fields of a page's records.
RefLinkFields(p) ==
    IF p = "projects" THEN {"url", "repo"}
    ELSE IF p = "publications" THEN {"url", "pdf"}
    ELSE IF p = "people" THEN {"website"}
    ELSE IF p = "news" THEN {"url"}
    ELSE {}

RefPrefix(v, pre) == Len(v) >= Len(pre) /\ SubSeq(v, 1, Len(pre)) = pre

RefHttp(v) == RefPrefix(v, "http://") \/ RefPrefix(v, "https://")

\* The delivered feed is the one row "k1" and its record is shown.
LinkProbed ==
    /\ LatestDelivered
    /\ Len(latest.feed) = 1
    /\ cell(latest.feed[1], "id") = "k1"
    /\ Len(rows) = 1

\* C16: in a normalized record each non-image link field (project url and
\* repo, person website, news url, publication url and pdf) is absent or a
\* trimmed string beginning with http:// or https://; a cell with any other
\* prefix is treated as absent; the only link not taken verbatim from the
\* row is the publication url derived from a DOI, which begins with
\* https://doi.org/.
C16_LinksAreHttp ==
    LinkProbed =>
        \A f \in RefLinkFields(page) :
            LET v == rows[1][f]
                c == RefTrim(RefText(cell(latest.feed[1], f)))
                fromDoi == page = "publications" /\ f = "url" /\ ~RefHttp(c)
                           /\ RefTrim(RefText(cell(latest.feed[1], "doi"))) # ""
            IN  /\ v # undefined => Trimmed(v) /\ RefHttp(v)
                /\ RefHttp(c) => v = c
                /\ (~RefHttp(c) /\ ~fromDoi) => v = undefined
                /\ fromDoi => RefPrefix(v, "https://doi.org/")

C16_Witness ==
    /\ LinkProbed
    /\ page = "publications"
    /\ cell(latest.feed[1], "url") = "ftp://x"
    /\ cell(latest.feed[1], "pdf") = " https://x/a "
    /\ cell(latest.feed[1], "doi") = "http://doi.org/10.1/x"
    /\ rows[1].url = "https://doi.org/10.1/x"
    /\ rows[1].pdf = "https://x/a"

\* The delivered feed is the one row "i1" and its record is shown.
ImageProbed ==
    /\ LatestDelivered
    /\ Len(latest.feed) = 1
    /\ cell(latest.feed[1], "id") = "i1"
    /\ Len(rows) = 1

\* C17: every image field (project imageUrl, person photoUrl, news
\* imageUrl) keeps a cell exactly when the trimmed cell begins with http://,
\* https:// or "/", and then holds the trimmed cell; in particular
\* /people/a.png is kept on each of the three pages.
C17_ImageAcceptsRootRelative ==
    ImageProbed =>
        LET c == RefTrim(RefText(cell(latest.feed[1], imageColumn(page))))
            v == IF page = "people" THEN rows[1].photoUrl ELSE rows[1].imageUrl
        IN  /\ (v # undefined) <=> (RefHttp(c) \/ RefPrefix(c, "/"))
            /\ v # undefined => v = c

\* The fetches issued by the loads of ls.
RECURSIVE RefFetches(_)
RefFetches(ls) == IF ls = <<>> THEN 0 ELSE ls[1].fetches + RefFetches(Tail(ls))

\* C19: the fetches issued never exceed the load triggers (mount, effect
\* re-run, Reload), each trigger issuing at most one fetch; in particular a
\* step that issues a fetch is a trigger starting a new load, so a failed
\* load issues no further fetch.
C19_FetchesBoundedByTriggers ==
    [][/\ RefFetches(loads') <= Len(loads')
       /\ \A l \in 1..Len(loads') : loads'[l].fetches <= 1
       /\ Len(loads') >= Len(loads)
       /\ \A l \in 1..Len(loads) : loads'[l].fetches = loads[l].fetches
       /\ RefFetches(loads') > RefFetches(loads) =>
              /\ Len(loads') = Len(loads) + 1
              /\ RefFetches(loads') = RefFetches(loads) + 1]_loads

C19_Witness ==
    /\ page \in ReloadPages
    /\ Len(loads) = 2
    /\ loads[1].outcome = "fail"
    /\ loads[2].outcome = "fail"
    /\ lastCompleted = 2
    /\ RefFetches(loads) = 2

\* C20: in the Archive component a load whose effect cleanup has run
\* changes none of rows, errMsg, diag and loading when it completes, with
\* success or with failure; so once every load has completed the state is
\* the outcome of the newest load, also when an older load completed last.
C20_CancelledLoadWritesNothing ==
    /\ [][\A l \in 1..Len(loads) :
              (/\ page = "archive"
               /\ loads[l].cancelled
               /\ loads[l].pc # "done"
               /\ loads'[l].pc = "done") =>
                  /\ rows' = rows
                  /\ loading' = loading
                  /\ errMsg' = errMsg
                  /\ diag' = diag]_loads
    /\ []((/\ page = "archive"
           /\ Len(loads) >= 2
           /\ InFlight = {}
           /\ ~loads[Len(loads)].cancelled) =>
              /\ loading = FALSE
              /\ latest.kind = "ok" => rows = Loaded(page, latest.feed) /\ errMsg = null
              /\ latest.kind = "fail" => rows = <<>> /\ errMsg = latest.msg)

C20_Witness ==
    /\ page = "archive"
    /\ Len(loads) = 2
    /\ loads[1].cancelled
    /\ ~loads[2].cancelled
    /\ loads[1].outcome = "fail"
    /\ loads[2].outcome = "ok"
    /\ lastCompleted = 1
    /\ rows # <<>>
    /\ rows = Loaded(page, latest.feed)
    /\ errMsg = null

\* The record the page makes of a parsed row.
RefRecord(p, r) ==
    IF p = "projects" THEN toProject(headerMapProjects(r))
    ELSE IF p = "publications" THEN toPublication(headerMapPublications(r))
    ELSE IF p = "news" THEN toNewsItem(headerMapNews(r))
    ELSE IF p = "people" THEN toPerson(headerMapPeople(r))
    ELSE IF p = "resources" THEN toResourcePage(headerMapResources(r))
    ELSE toResource(headerMapArchive(r))

\* The most recently triggered load overlapped no other load, succeeded and
\* completed last.
LoneLoadDelivered ==
    /\ LatestDelivered
    /\ ~loads[Len(loads)].overlapped

\* C21: after a successful load that overlaps no other load the record set
\* is exactly the normalized, filtered and sorted records of that load's
\* feed: every record shown is the record of a row of this feed, and nothing
\* an earlier load left is kept or merged.
C21_RecordSetReplaced ==
    LoneLoadDelivered =>
        /\ rows = Loaded(page, latest.feed)
        /\ \A j \in 1..Len(rows) :
               \E i \in 1..Len(latest.feed) : rows[j] = RefRecord(page, latest.feed[i])
        /\ Len(rows) <= Len(latest.feed)

C21_Witness ==
    /\ LoneLoadDelivered
    /\ Len(loads) = 2
    /\ loads[1].outcome = "ok"
    /\ loads[1].left = 2
    /\ Len(rows) = 1
    /\ Len(latest.feed) = 1

\* The delivered feed is one of rows that all carry the id "d1".
DuplicatesProbed ==
    /\ LatestDelivered
    /\ Len(latest.feed) >= 2
    /\ \A i \in 1..Len(latest.feed) : cell(latest.feed[i], "id") = "d1"

\* C22: rows carrying the same id are not deduplicated: the record set
\* holds one record for every row whose trimmed id and trimmed title are
\* non-empty, so its length is the number of such rows.
C22_DuplicateIdsCoexist ==
    DuplicatesProbed =>
        LET kept == {i \in 1..Len(latest.feed) : RowId(page, latest.feed[i]) # ""
                                                  /\ RowTitle(page, latest.feed[i]) # ""}
        IN  /\ Len(rows) = Cardinality(kept)
            /\ \A j \in 1..Len(rows) : rows[j].id = "d1"
            /\ \A t \in {"t", "u"} :
                   Cardinality({j \in 1..Len(rows) : RecordTitle(page, rows[j]) = t})
                       = Cardinality({i \in kept : RowTitle(page, latest.feed[i]) = t})

C22_Witness ==
    /\ DuplicatesProbed
    /\ page = "publications"
    /\ Len(latest.feed) = 3
    /\ Len(rows) = 3
    /\ rows[1] = rows[2]
    /\ rows[3].title = "u"

\* Record a is not after record b in the base ordering of page p.
RefNotGreater(p, a, b) ==
    \/ a.order < b.order
    \/ /\ a.order = b.order
       /\ IF p = "publications"
          THEN \/ a.year # undefinedYear /\ b.year = undefinedYear
               \/ a.year # undefinedYear /\ b.year # undefinedYear /\ a.year > b.year
               \/ a.year = b.year /\ localeCompare(a.title, b.title) <= 0
          ELSE localeCompare(RecordTitle(p, a), RecordTitle(p, b)) <= 0

\* C23: after a successful load the record set is in the base ordering: on
\* publications order ascending, then year descending with records without
\* a year last, then title ascending; on projects and people order
\* ascending, then title (name) ascending; each record is not greater than
\* the next one.
C23_BaseOrdering ==
    (LatestDelivered /\ page \in OrderPages) =>
        \A j \in 1..Len(rows) - 1 : RefNotGreater(page, rows[j], rows[j + 1])

C23_Witness ==
    /\ LatestDelivered
    /\ page = "publications"
    /\ Len(rows) = 3
    /\ cell(latest.feed[1], "id") = "s1"
    /\ rows[1].id = "s3" /\ rows[1].order = 1 /\ rows[1].year = undefinedYear
    /\ rows[2].id = "s2" /\ rows[2].order = ORDER_FALLBACK /\ rows[2].year = 2021
    /\ rows[3].id = "s1" /\ rows[3].order = ORDER_FALLBACK /\ rows[3].year = undefinedYear

\* The order cell of the probing row a record was made of.
OrderCellOf(rec) ==
    cell(latest.feed[CHOOSE k \in 1..Len(latest.feed) : latest.feed[k].id = rec.id], "order")

\* c is a decimal integer, possibly signed, possibly padded with white space.
RefNumeric(c) ==
    /\ c # undefined
    /\ LET t == RefTrim(c)
           body == IF t # "" /\ Char(t, 1) \in {"-", "+"} THEN SubSeq(t, 2, Len(t)) ELSE t
       IN  body # "" /\ \A i \in 1..Len(body) : Char(body, i) \in {"0", "1", "2", "3", "4", "5", "6", "7", "8", "9"}

OrderProbed ==
    /\ page \in OrderPages
    /\ LatestDelivered
    /\ Len(latest.feed) = 2
    /\ cell(latest.feed[1], "id") = "o1"

\* C11: on the projects, publications and people pages, of two records equal
\* in every secondary sort key, the one whose order cell is missing, empty
\* or non-numeric comes after the one whose order cell is a valid number,
\* whatever that number is.
C11_MissingOrderLast ==
    OrderProbed =>
        \A i, j \in 1..Len(rows) :
            (~RefNumeric(OrderCellOf(rows[i])) /\ RefNumeric(OrderCellOf(rows[j]))) => j < i

\* The searchable fields of a record joined by single spaces; a list field
\* is itself joined by spaces first.
RefSpaced(p, r) ==
    LET part(a) == IF a = <<>> THEN "" ELSE join(a, " ")
    IN  IF p = "resources"
        THEN r.title \o " " \o r.description \o " " \o part(r.tags) \o " "
             \o part([i \in 1..Len(r.categories) |-> categoryLabel(r.categories[i])]) \o " "
             \o part([i \in 1..Len(r.fileItems) |-> r.fileItems[i].name]) \o " "
             \o RefText(r.createdAt)
        ELSE r.title \o " " \o r.description \o " " \o part(r.tags) \o " " \o part(r.categories)


RefCategoryTest(r, t) == t = "all" \/ \E i \in 1..Len(r.categories) : r.categories[i] = t

RefTextTest(p, r, qs) ==
    RefContains(toLowerCase(RefSpaced(p, r)), toLowerCase(RefTrim(qs)))

\* The records the filter starts from, in display order.
FilterBase == IF page = "resources" THEN sortedRows(rows) ELSE rows

FilterView == mounted /\ page \in FilterPages /\ ~loading /\ errMsg = null

\* C5: in the resources / archive filter view a record is in the filtered
\* output if and only if it passes the category test (tab "all" passes every
\* record, also one with no category; any other tab passes the records whose
\* category list contains the tab's category) and the text test (the
\* trimmed, lower-cased query is a substring of the lower-cased space-joined
\* searchable fields); an empty or white-space query passes every record.
C5_FilterIffBothTests ==
    FilterView =>
        /\ filtered = SelectSeq(FilterBase,
                                LAMBDA r : RefCategoryTest(r, tab) /\ RefTextTest(page, r, query))
        /\ (RefTrim(query) = "" =>
                filtered = SelectSeq(FilterBase, LAMBDA r : RefCategoryTest(r, tab)))
        /\ (tab = "all" /\ RefTrim(query) = "" => filtered = FilterBase)

C5_Witness ==
    /\ FilterView
    /\ page = "resources"
    /\ tab = "python"
    /\ query = "PYTHON "
    /\ Len(rows) = 2
    /\ Len(filtered) = 1
    /\ \E i \in 1..2 : rows[i].categories = <<>>

\* The pieces of s between the characters of seps, trimmed, empty ones left out.
RefTokens(s, seps) ==
    LET cuts == {i \in 1..Len(s) : Char(s, i) \in seps}
        starts == Ascending({0} \cup cuts)
        stop(b) == Min({c \in cuts \cup {Len(s) + 1} : c > b})
        pieces == [k \in 1..Len(starts) |->
                      RefTrim(SubSeq(s, starts[k] + 1, stop(starts[k]) - 1))]
    IN  SelectSeq(pieces, LAMBDA t : t # "")

RefList(s) ==
    IF Len(RefTokens(s, {","})) >= 2 THEN RefTokens(s, {","})
    ELSE IF Len(RefTokens(s, {";"})) >= 2 THEN RefTokens(s, {";"})
    ELSE IF Len(RefTokens(s, {"|"})) >= 2 THEN RefTokens(s, {"|"})
    ELSE RefTokens(s, WhiteSpace)


FnDone(f) == fnName = f /\ fnPc = "done"

\* C6: list-valued text (tags, interests, methods) is split by the first of
\* comma, semicolon, pipe that yields at least two non-empty trimmed tokens,
\* else on runs of white space; tokens are non-empty, trimmed and in input
\* order; blank input yields the empty list; "a, b,c", "a;b;c" and "a b c"
\* each yield [a, b, c].
C6_ListSplitting ==
    (FnDone("tags") \/ FnDone("interests")) =>
        /\ fnOut = RefList(fnIn)
        /\ \A i \in 1..Len(fnOut) : Trimmed(fnOut[i])
        /\ (RefTrim(fnIn) = "" => fnOut = <<>>)
        /\ (fnIn \in {"a, b,c", "a;b;c", "a b c"} => fnOut = <<"a", "b", "c">>)

C6_Witness ==
    /\ FnDone("interests")
    /\ fnIn = "a b c"
    /\ fnOut = <<"a", "b", "c">>

RefAlias(t) ==
    LET x == RefTrim(toLowerCase(t))
    IN  IF x \in {"tool", "py", "python code"} THEN "python" ELSE x

RefCategoryKeys == {"article", "lecture", "python"}

RefCategories(tokens) ==
    SelectSeq([i \in 1..Len(tokens) |-> RefAlias(tokens[i])],
              LAMBDA x : x \in RefCategoryKeys)

\* The tokens of a categories cell: no white-space fallback, the whole
\* trimmed cell is the single token when no separator yields two.
RefCandidates(s) ==
    IF Len(RefTokens(s, {","})) >= 2 THEN RefTokens(s, {","})
    ELSE IF Len(RefTokens(s, {";"})) >= 2 THEN RefTokens(s, {";"})
    ELSE IF Len(RefTokens(s, {"|"})) >= 2 THEN RefTokens(s, {"|"})
    ELSE IF RefTrim(s) = "" THEN <<>>
    ELSE <<RefTrim(s)>>

\* C7 as stated: the categories cell is split like every other list-valued
\* cell, white-space fallback included, before the enumeration filter.
C7_AsStated ==
    FnDone("categories") => fnOut = RefCategories(RefList(fnIn))

\* C7 amended: the categories cell is split by the first of comma,
\* semicolon, pipe that yields at least two tokens; otherwise the whole
\* trimmed cell is one token (no white-space fallback), so "article lecture"
\* yields the empty category list.
C7_NoWhitespaceFallback ==
    FnDone("categories") =>
        /\ fnOut = RefCategories(RefCandidates(fnIn))
        /\ (fnIn = "article lecture" => fnOut = <<>>)

C7_Witness ==
    /\ FnDone("categories")
    /\ fnIn = "article lecture"
    /\ fnOut = <<>>

ResourceRowWithCategories(c) ==
    [id |-> "r1", title |-> "Intro", description |-> undefined, categories |-> c,
     tags |-> undefined, files |-> undefined, createdAt |-> undefined]

\* C8: every element of the normalized category list is one of article,
\* lecture, python; "workshop" alone yields the empty list; dropping a token
\* does not drop the record that carries it.
C8_EnumerationClosure ==
    FnDone("categories") =>
        /\ \A i \in 1..Len(fnOut) : fnOut[i] \in RefCategoryKeys
        /\ \A t \in Range(RefCandidates(fnIn)) :
               RefAlias(t) \notin RefCategoryKeys => RefAlias(t) \notin Range(fnOut)
        /\ (fnIn = "workshop" => fnOut = <<>>)
        /\ LET kept == filterIdTitle(<<toResource(ResourceRowWithCategories(fnIn))>>)
           IN  Len(kept) = 1 /\ kept[1].categories = fnOut

C8_Witness ==
    /\ FnDone("categories")
    /\ fnIn = "workshop"
    /\ fnOut = <<>>

\* C9: tool, py and "python code" map to python in any letter case, and
\* normalizing the comma-joined result again gives the same list.
C9_AliasIdempotent ==
    FnDone("categories") =>
        /\ (RefTrim(toLowerCase(fnIn)) \in {"tool", "py", "python code"}
               => fnOut = <<"python">>)
        /\ \A t \in Range(RefCandidates(fnIn)) :
               RefTrim(toLowerCase(t)) \in {"tool", "py", "python code"}
                   => "python" \in Range(fnOut)
        /\ normalizeCategories(join(fnOut, ",")) = fnOut

C9_Witness ==
    /\ FnDone("categories")
    /\ fnIn = "x,Py"
    /\ fnOut = <<"python">>

(***************************************************************************)
(* C10: the files cell.                                                    *)
(***************************************************************************)
RefMarks(p) == {i \in 1..(Len(p) - 1) : SubSeq(p, i, i + 1) = "::"}
RefName(p) == RefTrim(SubSeq(p, 1, Min(RefMarks(p)) - 1))
RefUrl(p) == RefTrim(SubSeq(p, Min(RefMarks(p)) + 2, Len(p)))

\* The parts the claim speaks about: no "::" at all, or one "::" followed by
\* a url, or one "::" with neither a url nor an http name before it.
RefPinned(p) ==
    \/ RefMarks(p) = {}
    \/ /\ RefMarks(p) # {}
       /\ RefMarks(RefUrl(p)) = {}
       /\ (RefUrl(p) # "" \/ ~startsWith(RefName(p), "http"))

\* The entry the claim gives a pinned part; url "" stands for "omitted".
RefEntry(p) ==
    IF RefMarks(p) = {}
    THEN IF startsWith(p, "http") THEN [name |-> "File", url |-> p]
         ELSE [name |-> p, url |-> ""]
    ELSE [name |-> IF RefName(p) = "" THEN "File" ELSE RefName(p), url |-> RefUrl(p)]

RefFiles(s) ==
    LET parts == RefTokens(s, {"|"})
        entries == [i \in 1..Len(parts) |->
                       IF RefPinned(parts[i]) THEN RefEntry(parts[i])
                       ELSE fileItem(parts[i])]
    IN  SelectSeq(entries, LAMBDA e : e.url # "")

RefNormalizeAgain(t) ==
    IF fnName = "normalizeCreatedAt" THEN normalizeCreatedAt(t) ELSE normalizeDate(t)

\* C15: date normalization never rejects a value: the result is absent
\* exactly when the trimmed input is empty; an input of the form YYYY-MM-DD
\* is returned unchanged; an input the date parser accepts is returned as a
\* 10-character YYYY-MM-DD string; any other input is returned as the
\* trimmed original; normalizing the result again returns the result.
C15_DateNeverRejected ==
    (fnName \in DateFns /\ fnPc = "done") =>
        LET raw == RefTrim(RefText(fnIn))
        IN  /\ (fnOut = undefined) <=> (raw = "")
            /\ isCanonicalDate(raw) => fnOut = raw
            /\ (raw # "" /\ ~isCanonicalDate(raw) /\ newDate(raw).ok) =>
                   Len(fnOut) = 10 /\ isCanonicalDate(fnOut)
            /\ (raw # "" /\ ~isCanonicalDate(raw) /\ ~newDate(raw).ok) => fnOut = raw
            /\ fnOut # undefined => RefNormalizeAgain(fnOut) = fnOut


\* The text before the first line break (\n or \r\n) of t.
RefFirstLine(t) ==
    LET ends == {k \in 1..Len(t) : Char(t, k) = "\n"}
        stop == IF ends = {} THEN Len(t) + 1 ELSE CHOOSE k \in ends : \A j \in ends : k <= j
        cut == IF stop <= Len(t) /\ stop > 1 /\ Char(t, stop - 1) = "\r" THEN stop - 2 ELSE stop - 1
    IN  SubSeq(t, 1, cut)

\* Tab, else comma, else semicolon, else none.
RefDelimiter(line) ==
    IF RefContains(line, "\t") THEN "\t"
    ELSE IF RefContains(line, ",") THEN ","
    ELSE IF RefContains(line, ";") THEN ";"
    ELSE undefined

\* Texts put after the first line.
RefLaterLines == {"", "a", "\t", "x,y\n", ";;\r\n\t", "\n,"}

\* C18: the detected delimiter is that of the first line of the feed text:
\* tab if the line has a tab, else comma, else semicolon, else none (the
\* parser's default); whatever follows the first line break does not change
\* it; the empty text yields none.
C18_DelimiterFromFirstLine ==
    (fnName \in DelimiterFns /\ fnPc = "done") =>
        LET line == RefFirstLine(fnIn)
            p == IF fnName = "detectDelimiter" THEN "archive" ELSE "people"
        IN  /\ fnOut.delimiter = RefDelimiter(line)
            /\ fnIn = "" => fnOut.delimiter = undefined
            /\ \A later \in RefLaterLines, br \in {"\n", "\r\n"} :
                   detectDelimiter(p, line \o br \o later).delimiter = fnOut.delimiter

C18_Witness ==
    /\ FnDone("detectDelimiterPeople")
    /\ fnIn = "a;\n\t"
    /\ fnOut.delimiter = ";"


\* A page with a search box shows its records.
QueryView == mounted /\ page \in QueryPages /\ ~loading /\ errMsg = null

\* The base-ordered record set the page filters.
RefBase(p, rs) == IF p = "resources" THEN sortedRows(rs) ELSE rs

\* C24: the filtered view is a subsequence of the base-ordered record set,
\* whatever the query and the tab: records that pass keep their relative
\* order and none appears twice; and a change of query or tab touches
\* nothing else the view is computed from, so restoring the earlier query
\* and tab gives the earlier view.
C24_FilterIsSubsequence ==
    /\ [](QueryView =>
              LET base == RefBase(page, rows)
              IN  \E g \in [1..Len(filtered) -> 1..Len(base)] :
                      /\ \A k \in 1..Len(filtered) : filtered[k] = base[g[k]]
                      /\ \A k \in 1..Len(filtered) - 1 : g[k] < g[k + 1])
    /\ [][QueryView => filteredOf(page', rows', tab, query) = filtered]_<<query, tab, rows>>

C24_Witness ==
    /\ QueryView
    /\ page = "resources"
    /\ Len(rows) = 2
    /\ RefBase(page, rows) # rows
    /\ RefTrim(query) # ""
    /\ Len(filtered) = 2


\* The rendered cards whose abstract is open.
RefOpenCards == {k \in 1..Len(cards) : cards[k].id = openAbsId}

\* C25: on the publications page at most one displayed publication has
\* its abstract open, after any sequence of abstract toggles and reloads.
C25_OneAbstractOpen == Cardinality(RefOpenCards) <= 1


\* C26: on the pages with a Reload button the loading flag is true in every
\* state in which a triggered load has not completed, also when Reload was
\* clicked while an earlier load was in flight.
C26_LoadingWhileInFlight ==
    (page \in ReloadPages /\ mounted /\ InFlight # {}) => loading = TRUE


\* C27: when every awaited promise settles, a mounted page whose loading
\* flag is true reaches a state in which it is false, unless the component
\* is unmounted first; in the Archive component the newest load clears the
\* flag although the superseded loads do not.
C27_LoadingEventuallyFalse ==
    (mounted /\ loading = TRUE) ~> (loading = FALSE \/ ~mounted)

C27_Witness ==
    /\ page = "archive"
    /\ mounted
    /\ Len(loads) = 2
    /\ loads[1].cancelled
    /\ loads[1].pc # "done"
    /\ loads[2].pc = "done"
    /\ loading = FALSE

\* Load l completes in this step by way of its catch block.
Fails(l) ==
    /\ loads[l].pc # "done"
    /\ loads'[l].pc = "done"
    /\ loads'[l].outcome = "fail"

\* C28: the diagnostics are null after every start of a load, become an
\* object only in the step in which a load delivers its feed, and are left
\* as they are by a failing load; so after a load that overlapped no other
\* load has failed they are null, also when it failed after the response
\* text had been received.
C28_DiagnosticsOnlyFromSuccess ==
    /\ [][/\ Len(loads') > Len(loads) => diag' = nullDiag
          /\ (diag' # diag /\ diag' # nullDiag) =>
                 \E l \in 1..Len(loads) : Delivers(l)
          /\ \A l \in 1..Len(loads) : Fails(l) => diag' = diag]_<<loads, diag>>
    /\ [](LoneLoadFailed => diag = nullDiag)

C28_Witness ==
    /\ Len(loads) = 2
    /\ loads[1].outcome = "ok"
    /\ loads[1].left > 0
    /\ LoneLoadFailed
    /\ loads[2].status = 200
    /\ diag = nullDiag

\* C29: a step that changes the search query or the tab leaves the record
\* set, the error message, the diagnostics, the loading flag and the loads
\* (so the number of fetches) as they were, and a step in which a load
\* starts, advances or completes leaves the query and the tab as they were.
C29_FilterAndLoadIndependent ==
    [][/\ (query' # query \/ tab' # tab) =>
              /\ rows' = rows
              /\ errMsg' = errMsg
              /\ diag' = diag
              /\ loading' = loading
              /\ loads' = loads
       /\ (loads' # loads \/ rows' # rows \/ loading' # loading) =>
              /\ query' = query
              /\ tab' = tab]_vars

C29_Witness ==
    /\ query = "python"
    /\ tab = "lecture"
    /\ Len(loads) = 2
    /\ loads[1].outcome = "ok"
    /\ loads[2].pc = "text"
    /\ loading = TRUE

\* The cell of the first of the headers hs that is a column of row r.
RefFirstPresent(r, hs) ==
    LET present == {i \in 1..Len(hs) : hs[i] \in DOMAIN r}
    IN  IF present = {} THEN undefined
        ELSE r[hs[CHOOSE i \in present : \A j \in present : i <= j]]

\* An optional text field: the trimmed cell, or undefined when that is empty.
RefOptional(v) ==
    LET t == RefTrim(RefText(v)) IN IF t = "" THEN undefined ELSE t

\* The delivered feed is one alias row.
AliasProbed ==
    /\ LatestDelivered
    /\ Len(latest.feed) = 1
    /\ "probe" \in DOMAIN latest.feed[1]

\* C30: a field of a row takes the cell of the first header, in the fixed
\* alias order, that is a column of the row, also when that cell is empty; a
\* later alias counts only when every earlier one is absent.  So an archive
\* row is kept exactly when the first present id column and the first
\* present title column are non-empty, and a row with an empty id column is
\* dropped whatever its ko_id column holds.
C30_FirstPresentAliasWins ==
    AliasProbed =>
        LET r == latest.feed[1]
        IN  /\ page = "archive" =>
                   LET id == RefTrim(RefText(RefFirstPresent(r, <<"id", "ID", "Id", "ko_id">>)))
                       title == RefTrim(RefText(RefFirstPresent(r, <<"title", "Title",
                                                                     "ko_title">>)))
                   IN  /\ rows # <<>> <=> (id # "" /\ title # "")
                       /\ rows # <<>> => (rows[1].id = id /\ rows[1].title = title)
            /\ page = "publications" =>
                   /\ Len(rows) = 1
                   /\ rows[1].abstract =
                          RefOptional(RefFirstPresent(r, <<"abstract", "summary", "Abstract",
                                                           "ko_abstract">>))
            /\ page = "projects" =>
                   /\ Len(rows) = 1
                   /\ rows[1].description =
                          RefOptional(RefFirstPresent(r, <<"description", "desc", "summary">>))

C30_Witness ==
    /\ AliasProbed
    /\ page = "archive"
    /\ DOMAIN latest.feed[1] = {"probe", "id", "ko_id", "title"}
    /\ latest.feed[1]["id"] = ""
    /\ latest.feed[1]["ko_id"] = "ko_id "
    /\ latest.feed[1]["title"] = "title "
    /\ rows = <<>>

=========================================================================
